---- MODULE Spec2Model ----
(***************************************************************************)
(* Retrieval layer of the on-device RAG pipeline:                          *)
(*   VectorStoreUSearch  (vector_store_usearch.cpp)                        *)
(*   RAGBackend          (rag_backend.cpp)                                 *)
(*   DocumentChunker     (rag_chunker.cpp)                                 *)
(* Similarities and thresholds are carried in hundredths (0.15 -> 15).     *)
(***************************************************************************)
EXTENDS Integers, Sequences, FiniteSets, TLC

VARIABLES
    index_,        \* VectorStoreUSearch::Impl::index_   : key -> vector held by the ANN engine
    chunks_,       \* VectorStoreUSearch::Impl::chunks_  : key -> DocumentChunk
    id_to_key_,    \* VectorStoreUSearch::Impl::id_to_key_ : id -> key
    next_key_,     \* VectorStoreUSearch::Impl::next_key_
    indexFile,     \* path -> contents of the native index file (or Absent)
    metaFile,      \* path -> contents of path + ".metadata.json" (or Absent)
    persisted,     \* history: path -> the store as the last save() that returned true left it on disk
    saves,         \* history: number of save() calls so far
    retired,       \* history: keys retired by remove_chunk since the last clear()
    lastOp,        \* history: the last completed VectorStore call, its argument and result
    store_mutex_,  \* VectorStoreUSearch::Impl::mutex_ : the thread holding it, or NoThread
    config_,       \* RAGBackend::config_
    embedding_provider_,  \* RAGBackend::embedding_provider_ : provider object, or Null
    text_generator_,      \* RAGBackend::text_generator_
    next_chunk_id_,       \* RAGBackend::next_chunk_id_
    mutex_,        \* RAGBackend::mutex_ : the thread holding it, or NoThread
    providers,     \* the IEmbeddingProvider objects created so far: object -> [dimension, ready]
    use_count,     \* std::shared_ptr use count of each provider object; 0 = destroyed
    pc,            \* thread -> where it is inside its RAGBackend call
    frame,         \* thread -> the locals of its RAGBackend call
    result,        \* history: thread -> what its last completed call returned
    ops            \* history: number of RAGBackend calls started

storeVars == <<index_, chunks_, id_to_key_, next_key_>>
fileVars  == <<indexFile, metaFile, persisted>>
backendVars ==
    <<store_mutex_, config_, embedding_provider_, text_generator_, next_chunk_id_,
      mutex_, providers, use_count, pc, frame, result, ops>>

\* ------------------------------------------------------------------------
\* Bounds
\* ------------------------------------------------------------------------
MaxKey   == 3      \* the key counter is capped at this value in the guards
MaxBatch == 2      \* longest batch handed to add_chunks_batch
MaxSaves == 1      \* save() calls that reach the file system
MaxOps   == 3      \* RAGBackend calls started in one behaviour

\* ------------------------------------------------------------------------
\* Values
\* ------------------------------------------------------------------------
Absent == [present |-> FALSE]

File(d) == [present |-> TRUE, data |-> d]

\* no save() to the path has returned true, or a later one that returned
\* false has written over its files
NotPersisted == [valid |-> FALSE]
NoOp   == [op |-> "none", arg |-> <<>>, ret |-> FALSE]

\* VectorStoreConfig::dimension as the store under study is configured
Dimension == 2

\* an id that does not depend on the counter
ChunkId_Constant(n) == <<"chunk_", 0>>

\* "chunk_" + std::to_string(n)
ChunkId(n) == <<"chunk_", n>>

StoreIds == {ChunkId(0), ChunkId(1)}
Texts    == {<<"a">>, <<"b">>}
Meta0    == [source_text |-> <<"a">>]

\* vectors offered to the store: two of the configured dimension, one too
\* short, one too long
InputVectors == {<<1, 0>>, <<1, 5>>, <<1>>, <<1, 0, 0>>}
QueryVectors == {<<1, 0>>, <<0, 1>>, <<1>>}
Thresholds   == {10, 90}
TopKs        == {1, 2}
Paths        == {"p"}

StoreChunks ==
    [id : StoreIds, text : Texts, embedding : InputVectors, metadata : {Meta0}]

\* chunks offered in batches
BatchChunks ==
    [id : StoreIds, text : {<<"a">>}, embedding : {<<1, 0>>, <<1>>}, metadata : {Meta0}]

\* what the history keeps of a chunk argument
Brief(chunk) == [id |-> chunk.id, len |-> Len(chunk.embedding)]

\* ------------------------------------------------------------------------
\* Finite maps (std::unordered_map)
\* ------------------------------------------------------------------------
EmptyMap == <<>>

Put(f, k, v) == [x \in (DOMAIN f) \cup {k} |-> IF x = k THEN v ELSE f[x]]

Erase(f, k) == [x \in (DOMAIN f) \ {k} |-> f[x]]

Min(a, b) == IF a < b THEN a ELSE b

\* ------------------------------------------------------------------------
\* Cosine metric of the ANN engine (metric_kind_t::cos_k), in hundredths
\* ------------------------------------------------------------------------
RECURSIVE Dot(_, _)
Dot(a, b) ==
    IF a = <<>> \/ b = <<>> THEN 0
    ELSE Head(a) * Head(b) + Dot(Tail(a), Tail(b))

\* similarity = 1.0f - distance, distance = 1 - ab / sqrt(a2 * b2)
Similarity(a, b) ==
    LET ab == Dot(a, b)
        a2 == Dot(a, a)
        b2 == Dot(b, b)
        mag == CHOOSE s \in 0..100 :
                  /\ s * s * a2 * b2 <= 10000 * ab * ab
                  /\ (s + 1) * (s + 1) * a2 * b2 > 10000 * ab * ab
    IN  IF a2 = 0 \/ b2 = 0 THEN (IF a2 = 0 /\ b2 = 0 THEN 100 ELSE 0)
        ELSE IF ab >= 0 THEN mag ELSE 0 - mag

\* std::min(threshold, 0.15f)
ThresholdCeiling == 15

\* a search that filters by the threshold it was given
EffectiveThreshold_Requested(threshold) == threshold

EffectiveThreshold(threshold) == Min(threshold, ThresholdCeiling)

\* ------------------------------------------------------------------------
\* The ANN engine as the store uses it
\* ------------------------------------------------------------------------
\* index_.add(key, vector): refuses a key it already holds; may also fail
\* for lack of resources (engineOk = FALSE)
IndexAddSucceeds(index, key, engineOk) == engineOk /\ key \notin DOMAIN index

\* an engine that returns min(top_k, size) members in any order
IndexSearch_Unranked(index, query, top_k) ==
    LET n == Min(top_k, Cardinality(DOMAIN index))
    IN  { m \in [1..n -> DOMAIN index] : \A i, j \in 1..n : i # j => m[i] # m[j] }

\* index_.search(query, top_k): the nearest min(top_k, size) members,
\* nearest first; members at equal distance come in either order
IndexSearch(index, query, top_k) ==
    LET n == Min(top_k, Cardinality(DOMAIN index))
    IN  { m \in [1..n -> DOMAIN index] :
            /\ \A i, j \in 1..n : i # j => m[i] # m[j]
            /\ \A i, j \in 1..n :
                 i < j => Similarity(query, index[m[i]]) >= Similarity(query, index[m[j]])
            /\ \A k \in (DOMAIN index) \ {m[i] : i \in 1..n} :
                 \A i \in 1..n : Similarity(query, index[m[i]]) >= Similarity(query, index[k]) }

\* index_.size()
Size == Cardinality(DOMAIN index_)

\* ------------------------------------------------------------------------
\* VectorStoreUSearch::Impl as pure steps over the store's four members
\* ------------------------------------------------------------------------
Store == [index |-> index_, chunks |-> chunks_, ids |-> id_to_key_, next |-> next_key_]

SetStore(s) ==
    /\ index_' = s.index
    /\ chunks_' = s.chunks
    /\ id_to_key_' = s.ids
    /\ next_key_' = s.next

\* a store that stores whatever length it is given
DimensionMismatch_Unchecked(vec) == FALSE

\* chunk.embedding.size() != config_.dimension
DimensionMismatch(vec) == Len(vec) # Dimension

\* a store that never looks the id up
IsDuplicate_Never(s, id) == FALSE

\* id_to_key_.find(chunk.id) != id_to_key_.end()
IsDuplicate(s, id) == id \in DOMAIN s.ids

\* a store that derives the key from the number of live chunks
AllocKey_BySize(s) == Cardinality(DOMAIN s.chunks)

\* std::size_t key = next_key_++
AllocKey(s) == s.next

\* add_chunk up to and including index_.add: the two checks, the key,
\* the insertion into the engine
AddToIndex(s, chunk, engineOk) ==
    IF DimensionMismatch(chunk.embedding) THEN [store |-> s, ok |-> FALSE, key |-> 0]
    ELSE IF IsDuplicate(s, chunk.id) THEN [store |-> s, ok |-> FALSE, key |-> 0]
    ELSE LET key == AllocKey(s)
             s1  == [s EXCEPT !.next = s.next + 1]
         IN  IF ~IndexAddSucceeds(s1.index, key, engineOk)
             THEN [store |-> s1, ok |-> FALSE, key |-> key]
             ELSE [store |-> [s1 EXCEPT !.index = Put(s1.index, key, chunk.embedding)],
                   ok |-> TRUE, key |-> key]

\* add_chunk after index_.add: chunks_[key] = chunk; id_to_key_[chunk.id] = key
AddMetadata(s, chunk, key) ==
    [s EXCEPT !.chunks = Put(s.chunks, key, chunk),
              !.ids    = Put(s.ids, chunk.id, key)]

\* the body of add_chunk and of one iteration of add_chunks_batch
AddOne(s, chunk, engineOk) ==
    LET r == AddToIndex(s, chunk, engineOk)
    IN  IF r.ok THEN [store |-> AddMetadata(r.store, chunk, r.key), ok |-> TRUE]
        ELSE [store |-> r.store, ok |-> FALSE]

\* the loop of add_chunks_batch: items are [chunk, engineOk]
RECURSIVE AddBatch(_, _, _)
\* a loop that stops after its first item
AddBatch_FirstOnly(s, items, any_added) ==
    IF items = <<>> THEN [store |-> s, ok |-> any_added]
    ELSE LET r == AddOne(s, Head(items).chunk, Head(items).engineOk)
         IN  [store |-> r.store, ok |-> any_added \/ r.ok]

AddBatch(s, items, any_added) ==
    IF items = <<>> THEN [store |-> s, ok |-> any_added]
    ELSE LET r == AddOne(s, Head(items).chunk, Head(items).engineOk)
         IN  AddBatch(r.store, Tail(items), any_added \/ r.ok)

\* the loop of search over the engine's matches
RECURSIVE FilterMatches(_, _, _, _)
\* a loop that gives up at the first key without a metadata entry
FilterMatches_StopAtOrphan(s, query, matches, effective_threshold) ==
    IF matches = <<>> THEN <<>>
    ELSE LET key        == Head(matches)
             similarity == Similarity(query, s.index[key])
             rest       == FilterMatches(s, query, Tail(matches), effective_threshold)
         IN  IF similarity < effective_threshold THEN rest
             ELSE IF key \notin DOMAIN s.chunks THEN <<>>
             ELSE <<[chunk_id |-> s.chunks[key].id,
                     id |-> s.chunks[key].id,
                     text |-> s.chunks[key].text,
                     similarity |-> similarity,
                     score |-> similarity,
                     metadata |-> s.chunks[key].metadata]>> \o rest

FilterMatches(s, query, matches, effective_threshold) ==
    IF matches = <<>> THEN <<>>
    ELSE LET key        == Head(matches)
             similarity == Similarity(query, s.index[key])
             rest       == FilterMatches(s, query, Tail(matches), effective_threshold)
         IN  IF similarity < effective_threshold THEN rest
             ELSE IF key \notin DOMAIN s.chunks THEN rest
             ELSE <<[chunk_id |-> s.chunks[key].id,
                     id |-> s.chunks[key].id,
                     text |-> s.chunks[key].text,
                     similarity |-> similarity,
                     score |-> similarity,
                     metadata |-> s.chunks[key].metadata]>> \o rest

\* the results search may return
SearchResults(s, query, top_k, threshold) ==
    IF DimensionMismatch(query) THEN {<<>>}
    ELSE IF Cardinality(DOMAIN s.index) = 0 THEN {<<>>}
    ELSE { FilterMatches(s, query, m, EffectiveThreshold(threshold)) :
             m \in IndexSearch(s.index, query, top_k) }

\* a removal that leaves the vector in the engine
RemoveOne_MapsOnly(s, id, engineOk) ==
    IF id \notin DOMAIN s.ids THEN [store |-> s, ok |-> FALSE]
    ELSE IF ~engineOk THEN [store |-> s, ok |-> FALSE]
    ELSE [store |-> [s EXCEPT !.chunks = Erase(s.chunks, s.ids[id]),
                              !.ids    = Erase(s.ids, id)],
          ok |-> TRUE]

\* remove_chunk; index_.remove(key) reports no error when the key is not a
\* member, and may fail for lack of resources (engineOk = FALSE), in which
\* case remove_chunk returns false before it touches the maps
RemoveOne(s, id, engineOk) ==
    IF id \notin DOMAIN s.ids THEN [store |-> s, ok |-> FALSE]
    ELSE LET key == s.ids[id]
         IN  IF ~engineOk THEN [store |-> s, ok |-> FALSE]
             ELSE [store |-> [s EXCEPT !.index  = Erase(s.index, key),
                                       !.chunks = Erase(s.chunks, key),
                                       !.ids    = Erase(s.ids, id)],
                   ok |-> TRUE]

\* a clear that leaves the key counter where a first insertion put it
Cleared_CounterKept == [index |-> EmptyMap, chunks |-> EmptyMap, ids |-> EmptyMap, next |-> 1]

\* clear
Cleared == [index |-> EmptyMap, chunks |-> EmptyMap, ids |-> EmptyMap, next |-> 0]

\* ------------------------------------------------------------------------
\* The sidecar file: {next_key, chunks: [{key, id, text, embedding, metadata}]}
\* ------------------------------------------------------------------------
RECURSIVE KeysInOrder(_)
KeysInOrder(keys) ==
    IF keys = {} THEN <<>>
    ELSE LET k == CHOOSE x \in keys : \A y \in keys : x <= y
         IN  <<k>> \o KeysInOrder(keys \ {k})

\* a sidecar written without the key counter
Sidecar_CounterLost(s) ==
    LET ks == KeysInOrder(DOMAIN s.chunks)
    IN  [next_key |-> 0,
         chunks   |-> [i \in 1..Len(ks) |->
                         [key |-> ks[i],
                          id |-> s.chunks[ks[i]].id,
                          text |-> s.chunks[ks[i]].text,
                          embedding |-> s.chunks[ks[i]].embedding,
                          metadata |-> s.chunks[ks[i]].metadata]]]

\* the JSON document save writes
Sidecar(s) ==
    LET ks == KeysInOrder(DOMAIN s.chunks)
    IN  [next_key |-> s.next,
         chunks   |-> [i \in 1..Len(ks) |->
                         [key |-> ks[i],
                          id |-> s.chunks[ks[i]].id,
                          text |-> s.chunks[ks[i]].text,
                          embedding |-> s.chunks[ks[i]].embedding,
                          metadata |-> s.chunks[ks[i]].metadata]]]

\* the loop of load over metadata["chunks"]
RECURSIVE ParseChunks(_, _, _)
ParseChunks(entries, new_chunks, new_id_to_key) ==
    IF entries = <<>> THEN [chunks |-> new_chunks, ids |-> new_id_to_key]
    ELSE LET e == Head(entries)
             c == [id |-> e.id, text |-> e.text,
                   embedding |-> e.embedding, metadata |-> e.metadata]
         IN  ParseChunks(Tail(entries), Put(new_chunks, e.key, c),
                         Put(new_id_to_key, e.id, e.key))

\* ------------------------------------------------------------------------
\* DocumentChunker (texts are sequences of characters, positions count
\* from 0 as in the source)
\* ------------------------------------------------------------------------
\* ChunkerConfig::chars_per_token
CharsPerToken == 4

\* longest run of the chunking loop that is followed
MaxLoop == 8

\* std::isspace in the "C" locale (the vertical tab has no spelling here)
IsSpace(c) == c \in {" ", "\t", "\n", "\r", "\f"}

\* the set given to find_first_not_of / find_last_not_of
TrimSet == {" ", "\t", "\n", "\r"}

\* text.substr(pos, n)
Substr(text, pos, n) == SubSeq(text, pos + 1, Min(pos + n, Len(text)))

\* find_sentence_boundaries
FindSentenceBoundaries(text) ==
    LET inner == SelectSeq([i \in 1..Len(text) |-> i],
                     LAMBDA p : /\ text[p] \in {".", "!", "?", "\n"}
                                /\ p < Len(text)
                                /\ IsSpace(text[p + 1]))
    IN  <<0>> \o inner \o <<Len(text)>>

\* the scan for the first boundary at or after target_end
RECURSIVE FirstBoundaryFrom(_, _, _)
FirstBoundaryFrom(boundaries, target_end, otherwise) ==
    IF boundaries = <<>> THEN otherwise
    ELSE IF Head(boundaries) >= target_end THEN Head(boundaries)
    ELSE FirstBoundaryFrom(Tail(boundaries), target_end, otherwise)

\* a trim that empties a text made of whitespace only
Trim_WhitespaceToEmpty(text) ==
    LET keep == {i \in 1..Len(text) : text[i] \notin TrimSet}
    IN  IF keep = {} THEN <<>>
        ELSE LET first == CHOOSE i \in keep : \A j \in keep : i <= j
                 last  == CHOOSE i \in keep : \A j \in keep : i >= j
             IN  SubSeq(text, first, last)

\* the whitespace trim of a new chunk's text
Trim(text) ==
    LET keep == {i \in 1..Len(text) : text[i] \notin TrimSet}
    IN  IF keep = {} THEN text
        ELSE LET first == CHOOSE i \in keep : \A j \in keep : i <= j
                 last  == CHOOSE i \in keep : \A j \in keep : i >= j
             IN  SubSeq(text, first, last)

\* a chunk numbered after the increment of chunk_index
NewChunk_IndexAfterIncrement(text, start_pos, end_pos, chunk_index) ==
    [text |-> Trim(Substr(text, start_pos, end_pos - start_pos)),
     start_position |-> start_pos,
     end_position |-> end_pos,
     chunk_index |-> chunk_index + 1]

\* the chunk created and trimmed in one pass of the loop
NewChunk(text, start_pos, end_pos, chunk_index) ==
    [text |-> Trim(Substr(text, start_pos, end_pos - start_pos)),
     start_position |-> start_pos,
     end_position |-> end_pos,
     chunk_index |-> chunk_index]

\* a merge that leaves the end position of the last chunk where it was
MergeTail_EndKept(chunks, text, start_pos) ==
    [chunks EXCEPT ![Len(chunks)] =
        [@ EXCEPT !.text = @ \o <<" ">> \o Substr(text, start_pos, Len(text))]]

\* the tail too small for a chunk of its own is appended to the last chunk
MergeTail(chunks, text, start_pos) ==
    [chunks EXCEPT ![Len(chunks)] =
        [@ EXCEPT !.text = @ \o <<" ">> \o Substr(text, start_pos, Len(text)),
                  !.end_position = Len(text)]]

\* a next chunk that always starts where the last one ended
NextStart_NoOverlap(end_pos, overlap_chars) == end_pos

\* the start of the next chunk
NextStart(end_pos, overlap_chars) ==
    IF end_pos > overlap_chars THEN end_pos - overlap_chars ELSE end_pos

\* a loop that never takes a piece for a tiny tail
TinyTail_Never(start_pos, end_pos, chunk_size_chars, chunk_index) == FALSE

\* the piece is a tiny tail: shorter than half a chunk, and not the first
TinyTail(start_pos, end_pos, chunk_size_chars, chunk_index) ==
    end_pos - start_pos < chunk_size_chars \div 2 /\ chunk_index > 0

\* the while loop of split_by_boundaries; fuel bounds the iterations
RECURSIVE SplitLoop(_, _, _, _, _, _, _)
SplitLoop(text, boundaries, cfg, chunks, chunk_index, start_pos, fuel) ==
    LET chunk_size_chars == cfg.chunk_size * cfg.chars_per_token
        overlap_chars    == cfg.chunk_overlap * cfg.chars_per_token
        target_end       == start_pos + chunk_size_chars
        end_pos          == FirstBoundaryFrom(boundaries, target_end, Len(text))
        chunk  == NewChunk(text, start_pos, end_pos, chunk_index)
        pushed == IF chunk.text # <<>> THEN Append(chunks, chunk) ELSE chunks
    IN  IF ~(start_pos < Len(text)) THEN [chunks |-> chunks, finished |-> TRUE]
        ELSE IF fuel = 0 THEN [chunks |-> chunks, finished |-> FALSE]
        ELSE IF TinyTail(start_pos, end_pos, chunk_size_chars, chunk_index)
        THEN [chunks |-> IF chunks # <<>> THEN MergeTail(chunks, text, start_pos)
                         ELSE chunks,
              finished |-> TRUE]
        ELSE IF end_pos >= Len(text) THEN [chunks |-> pushed, finished |-> TRUE]
        ELSE SplitLoop(text, boundaries, cfg, pushed, chunk_index + 1,
                       NextStart(end_pos, overlap_chars), fuel - 1)

\* chunk_document
ChunkDocument(text, cfg) ==
    IF text = <<>> THEN <<>>
    ELSE SplitLoop(text, FindSentenceBoundaries(text), cfg, <<>>, 0, 0, MaxLoop).chunks

\* ------------------------------------------------------------------------
\* VectorStore operations (each holds mutex_ for its whole duration)
\* ------------------------------------------------------------------------
StoreAddChunk(chunk, engineOk) ==
    /\ next_key_ < MaxKey
    /\ LET r == AddOne(Store, chunk, engineOk)
       IN  /\ SetStore(r.store)
           /\ lastOp' = [op |-> "add_chunk", arg |-> Brief(chunk), ret |-> r.ok]
    /\ UNCHANGED <<fileVars, retired, saves, backendVars>>

StoreAddChunksBatch(items) ==
    /\ next_key_ + Len(items) <= MaxKey
    /\ LET r == AddBatch(Store, items, FALSE)
       IN  /\ SetStore(r.store)
           /\ lastOp' = [op |-> "add_chunks_batch",
                       arg |-> [i \in 1..Len(items) |-> Brief(items[i].chunk)],
                       ret |-> r.ok]
    /\ UNCHANGED <<fileVars, retired, saves, backendVars>>

StoreSearch(query, top_k, threshold) ==
    /\ \E res \in SearchResults(Store, query, top_k, threshold) :
          lastOp' = [op |-> "search", arg |-> Len(query), ret |-> res]
    /\ UNCHANGED <<storeVars, fileVars, retired, saves, backendVars>>

StoreRemoveChunk(id, engineOk) ==
    /\ LET r == RemoveOne(Store, id, engineOk)
       IN  /\ SetStore(r.store)
           /\ retired' = IF r.ok THEN retired \cup {id_to_key_[id]} ELSE retired
           /\ lastOp' = [op |-> "remove_chunk", arg |-> id, ret |-> r.ok]
    /\ UNCHANGED <<fileVars, saves, backendVars>>

StoreClear ==
    /\ SetStore(Cleared)
    /\ retired' = {}
    /\ lastOp' = [op |-> "clear", arg |-> <<>>, ret |-> TRUE]
    /\ UNCHANGED <<fileVars, saves, backendVars>>

\* save: indexOk is the outcome of index_.save, sidecarOk of opening the
\* sidecar for writing
StoreSave(path, indexOk, sidecarOk) ==
    /\ saves < MaxSaves
    /\ saves' = saves + 1
    /\ IF ~indexOk
       THEN /\ UNCHANGED fileVars
            /\ lastOp' = [op |-> "save", arg |-> path, ret |-> FALSE]
       ELSE /\ indexFile' = [indexFile EXCEPT ![path] = File(index_)]
            /\ IF ~sidecarOk
               THEN /\ UNCHANGED metaFile
                    /\ persisted' = [persisted EXCEPT ![path] = NotPersisted]
                    /\ lastOp' = [op |-> "save", arg |-> path, ret |-> FALSE]
               ELSE /\ metaFile' = [metaFile EXCEPT ![path] = File(Sidecar(Store))]
                    /\ persisted' = [persisted EXCEPT ![path] =
                                        [valid |-> TRUE, store |-> Store,
                                         keys |-> DOMAIN chunks_ \cup retired]]
                    /\ lastOp' = [op |-> "save", arg |-> path, ret |-> TRUE]
    /\ UNCHANGED <<storeVars, retired, backendVars>>

StoreLoad(path) ==
    /\ IF ~indexFile[path].present
       THEN /\ UNCHANGED storeVars
            /\ lastOp' = [op |-> "load", arg |-> path, ret |-> FALSE]
       ELSE /\ index_' = indexFile[path].data
            /\ IF ~metaFile[path].present
               THEN /\ UNCHANGED <<chunks_, id_to_key_, next_key_>>
                    /\ lastOp' = [op |-> "load", arg |-> path, ret |-> FALSE]
               ELSE LET parsed == ParseChunks(metaFile[path].data.chunks, EmptyMap, EmptyMap)
                    IN  /\ next_key_' = metaFile[path].data.next_key
                        /\ chunks_' = parsed.chunks
                        /\ id_to_key_' = parsed.ids
                        /\ lastOp' = [op |-> "load", arg |-> path, ret |-> TRUE]
    /\ retired' = {}
    /\ UNCHANGED <<fileVars, saves, backendVars>>

\* ------------------------------------------------------------------------
\* RAGBackend: values
\* ------------------------------------------------------------------------
Threads  == {"t1", "t2"}
NoThread == "none"
Null     == 0

\* RAGBackendConfig as the backend under study is constructed (the chunk
\* size makes a ten-character document split in two)
BackendConfig ==
    [embedding_dimension |-> Dimension, top_k |-> 2, similarity_threshold |-> 70,
     chunk_size |-> 1, chunk_overlap |-> 0]

\* ChunkerConfig built by the constructor
ChunkerConfig ==
    [chunk_size |-> BackendConfig.chunk_size,
     chunk_overlap |-> BackendConfig.chunk_overlap,
     chars_per_token |-> CharsPerToken]

\* dimension() of the providers handed to the backend
ProviderDims == {Dimension, Dimension + 1}

\* what set_embedding_provider may be given: nullptr or a new object
ProviderArgs ==
    {[null |-> TRUE, dimension |-> 0, ready |-> FALSE]}
      \cup [null : {FALSE}, dimension : ProviderDims, ready : BOOLEAN]

\* what set_text_generator may be given
Generators == {"null", "ready", "unready"}

\* documents handed to add_document: one chunk, two chunks
Docs == {<<"h", "i">>, <<"a", "b", ".", " ", "c", "d", ".", " ", "e", "f">>}

NoChunk == [id |-> <<>>, text |-> <<>>, embedding |-> <<>>,
            metadata |-> [source_text |-> <<>>]]

EmptyFrame ==
    [op |-> "none", provider |-> Null, dimension |-> 0, generator |-> "null",
     source |-> <<>>, chunks |-> <<>>, chunk |-> NoChunk, key |-> 0,
     embedding |-> <<>>, results |-> <<>>, top_k |-> 0, similarity_threshold |-> 0,
     embedder |-> Null, embeds |-> 0, generates |-> 0,
     total |-> 0, added |-> 0, skipped |-> 0, threw |-> FALSE, refused |-> FALSE, swapped |-> FALSE]

NoResult == [op |-> "none"]

\* ------------------------------------------------------------------------
\* RAGBackend: helpers
\* ------------------------------------------------------------------------
\* a check that looks at the pointer only
Unavailable_NullOnly(p) == p = Null

\* !embedding_provider || !embedding_provider->is_ready()
Unavailable(p) == p = Null \/ ~providers[p].ready

\* embedding_provider->embed(text) when it returns: a vector of the
\* provider's dimension (as DummyEmbeddingProvider)
EmbedVector(p, text) == [i \in 1..providers[p].dimension |-> 1]

\* embed(text) of a provider that returns fewer elements than dimension()
ShortVector == <<1>>

\* a copy that does not share ownership (a raw pointer)
CopyRef_Raw(uc, p) == uc

\* copying a std::shared_ptr
CopyRef(uc, p) == IF p = Null THEN uc ELSE [uc EXCEPT ![p] = @ + 1]

\* destroying or overwriting a std::shared_ptr; the object is destroyed
\* when the count reaches 0
DropRef(uc, p) ==
    IF p = Null THEN uc ELSE [uc EXCEPT ![p] = IF @ > 0 THEN @ - 1 ELSE 0]

\* a search that embeds with the member embedding_provider_
UsedProvider_Member(t) == embedding_provider_

\* search_with_provider embeds with its parameter, the captured pointer
UsedProvider(t) == frame[t].provider

\* a search that reads config_.embedding_dimension again when it checks
UsedDimension_Member(t) == config_.embedding_dimension

\* the embedding_dimension argument of search_with_provider
UsedDimension(t) == frame[t].dimension

\* an add_chunk that does not lock the store
StoreLock_None(t) == NoThread

\* std::lock_guard on the store's mutex_ in add_chunk
StoreLock(t) == t

\* a length mismatch that ends add_document with false
MismatchIsFatal_Yes == TRUE

\* add_document after an embedding of the wrong length: continue
MismatchIsFatal == FALSE

\* a search that keeps mutex_ for the whole call
SnapshotUnlock_Held(t) == t

\* the end of the block that copies the provider and the config
SnapshotUnlock(t) == NoThread

\* return from a RAGBackend call: the locals are destroyed, a lock_guard
\* on mutex_ still in scope is released
Return(t, res) ==
    /\ pc' = [pc EXCEPT ![t] = "idle"]
    /\ frame' = [frame EXCEPT ![t] = EmptyFrame]
    /\ result' = [result EXCEPT ![t] = res]

\* a lock that its holder never releases
Unlock_Never(t, m) == m

Unlock(t, m) == IF m = t THEN NoThread ELSE m

AddDocumentResult(ret, f, ready) ==
    [op |-> "add_document", ret |-> ret, ready |-> ready,
     total |-> f.total, added |-> f.added,
     skipped |-> f.skipped, threw |-> f.threw, refused |-> f.refused]

SearchResult(res, f) ==
    [op |-> "search", ret |-> res, provider |-> f.provider, swapped |-> f.swapped,
     embeds |-> f.embeds]

\* GenerationResult of query: success, text and the metadata object, whose
\* keys are those the call attached
QueryResult(success, text, metadata, f) ==
    [op |-> "query", success |-> success, text |-> text, metadata |-> metadata,
     provider |-> f.provider, swapped |-> f.swapped,
     embeds |-> f.embeds, generates |-> f.generates, threw |-> f.threw]

\* an empty nlohmann::json object
NoMetadata == [key \in {} |-> <<>>]

\* build_context: the texts of the results joined by a blank line
RECURSIVE BuildContext(_)
BuildContext(results) ==
    IF results = <<>> THEN <<>>
    ELSE IF Len(results) = 1 THEN results[1].text
    ELSE results[1].text \o <<"\n", "\n">> \o BuildContext(Tail(results))

\* the placeholders of the prompt template
ContextPlaceholder == <<"{", "c", "o", "n", "t", "e", "x", "t", "}">>

QueryPlaceholder == <<"{", "q", "u", "e", "r", "y", "}">>

\* std::string::npos; positions of the model start at 1
Npos == 0

\* std::string::find: the first position where pat occurs in s
Find(s, pat) ==
    LET Hits == {i \in 1..(Len(s) - Len(pat) + 1) : SubSeq(s, i, i + Len(pat) - 1) = pat}
    IN  IF Hits = {} THEN Npos
        ELSE CHOOSE i \in Hits : \A j \in Hits : i <= j

\* std::string::replace(pos, n, r)
Replace(s, pos, n, r) ==
    SubSeq(s, 1, pos - 1) \o r \o SubSeq(s, pos + n, Len(s))

\* the prompt of query: {context} is replaced in the template, then {query}
\* is looked for in the string that already holds the context
FormatPrompt(prompt_template, query, context) ==
    LET pos1    == Find(prompt_template, ContextPlaceholder)
        prompt1 == IF pos1 # Npos THEN Replace(prompt_template, pos1, 9, context)
                   ELSE prompt_template
        pos2    == Find(prompt1, QueryPlaceholder)
    IN  IF pos2 # Npos THEN Replace(prompt1, pos2, 7, query) ELSE prompt1

\* a sources array cut to its first entry
Sources_FirstOnly(results) ==
    [i \in 1..Min(1, Len(results)) |->
        [id |-> results[i].id, score |-> results[i].score,
         source |-> results[i].metadata.source_text]]

\* the sources array: id, score and source of every search result, in order
Sources(results) ==
    [i \in 1..Len(results) |->
        [id |-> results[i].id, score |-> results[i].score,
         source |-> results[i].metadata.source_text]]

\* ------------------------------------------------------------------------
\* RAGBackend::add_document
\* ------------------------------------------------------------------------
\* lock mutex_, check the provider, chunk the document
AddDocumentStart(t, text) ==
    /\ pc[t] = "idle"
    /\ ops < MaxOps
    /\ mutex_ = NoThread
    /\ ops' = ops + 1
    /\ IF Unavailable(embedding_provider_)
       THEN /\ Return(t, AddDocumentResult(FALSE, EmptyFrame, FALSE))
            /\ UNCHANGED mutex_
       ELSE LET chunks == ChunkDocument(text, ChunkerConfig)
            IN  /\ next_key_ + Len(chunks) <= MaxKey
                /\ next_chunk_id_ + Len(chunks) <= MaxKey
                /\ IF chunks = <<>>
                   THEN /\ Return(t, AddDocumentResult(TRUE, EmptyFrame, TRUE))
                        /\ UNCHANGED mutex_
                   ELSE /\ mutex_' = t
                        /\ pc' = [pc EXCEPT ![t] = "ad_embed"]
                        /\ frame' = [frame EXCEPT ![t] =
                              [EmptyFrame EXCEPT !.op = "add_document",
                                                 !.source = text,
                                                 !.chunks = chunks,
                                                 !.total = Len(chunks)]]
                        /\ UNCHANGED result
    /\ UNCHANGED <<storeVars, fileVars, saves, retired, lastOp, store_mutex_, config_,
                   embedding_provider_, text_generator_, next_chunk_id_, providers,
                   use_count>>

\* embed() throws, or returns a vector: one of the provider's dimension or,
\* when short, one of a single element
AddDocumentEmbed(t, threw, short) ==
    /\ pc[t] = "ad_embed"
    /\ LET f         == frame[t]
           chunk_obj == Head(f.chunks)
           embedding == IF short THEN ShortVector
                        ELSE EmbedVector(embedding_provider_, chunk_obj.text)
           rest      == Tail(f.chunks)
       IN  IF threw
           THEN /\ Return(t, AddDocumentResult(FALSE, [f EXCEPT !.threw = TRUE], TRUE))
                /\ mutex_' = Unlock(t, mutex_)
                /\ UNCHANGED next_chunk_id_
           ELSE IF Len(embedding) # config_.embedding_dimension
           THEN /\ UNCHANGED next_chunk_id_
                /\ IF MismatchIsFatal
                   THEN /\ Return(t, AddDocumentResult(FALSE,
                                        [f EXCEPT !.skipped = @ + 1], TRUE))
                        /\ mutex_' = Unlock(t, mutex_)
                   ELSE IF rest = <<>>
                   THEN /\ Return(t, AddDocumentResult(TRUE,
                                        [f EXCEPT !.skipped = @ + 1], TRUE))
                        /\ mutex_' = Unlock(t, mutex_)
                   ELSE /\ frame' = [frame EXCEPT ![t] =
                              [f EXCEPT !.chunks = rest, !.skipped = @ + 1]]
                        /\ UNCHANGED <<pc, result, mutex_>>
           ELSE /\ next_chunk_id_' = next_chunk_id_ + 1
                /\ frame' = [frame EXCEPT ![t] =
                      [f EXCEPT !.chunk =
                          [id |-> ChunkId(next_chunk_id_),
                           text |-> chunk_obj.text,
                           embedding |-> embedding,
                           metadata |-> [source_text |-> Substr(f.source, 0, 100)]]]]
                /\ pc' = [pc EXCEPT ![t] = "ad_store"]
                /\ UNCHANGED <<result, mutex_>>
    /\ UNCHANGED <<storeVars, fileVars, saves, retired, lastOp, store_mutex_, config_,
                   embedding_provider_, text_generator_, providers, use_count, ops>>

\* vector_store_->add_chunk: lock the store, the checks, index_.add
AddDocumentStoreIndex(t, engineOk) ==
    /\ pc[t] = "ad_store"
    /\ store_mutex_ = NoThread
    /\ LET f == frame[t]
           r == AddToIndex(Store, f.chunk, engineOk)
       IN  /\ SetStore(r.store)
           /\ IF r.ok
              THEN /\ store_mutex_' = StoreLock(t)
                   /\ pc' = [pc EXCEPT ![t] = "ad_meta"]
                   /\ frame' = [frame EXCEPT ![t] = [f EXCEPT !.key = r.key]]
                   /\ UNCHANGED <<result, mutex_>>
              ELSE /\ UNCHANGED store_mutex_
                   /\ Return(t, AddDocumentResult(FALSE, [f EXCEPT !.refused = TRUE], TRUE))
                   /\ mutex_' = Unlock(t, mutex_)
    /\ UNCHANGED <<fileVars, saves, retired, lastOp, config_, embedding_provider_,
                   text_generator_, next_chunk_id_, providers, use_count, ops>>

\* vector_store_->add_chunk: the two maps, unlock the store; next chunk
AddDocumentStoreMeta(t) ==
    /\ pc[t] = "ad_meta"
    /\ LET f    == frame[t]
           rest == Tail(f.chunks)
       IN  /\ SetStore(AddMetadata(Store, f.chunk, f.key))
           /\ store_mutex_' = Unlock(t, store_mutex_)
           /\ IF rest = <<>>
              THEN /\ Return(t, AddDocumentResult(TRUE, [f EXCEPT !.added = @ + 1], TRUE))
                   /\ mutex_' = Unlock(t, mutex_)
              ELSE /\ frame' = [frame EXCEPT ![t] =
                         [f EXCEPT !.chunks = rest, !.chunk = NoChunk, !.key = 0,
                                   !.added = @ + 1]]
                   /\ pc' = [pc EXCEPT ![t] = "ad_embed"]
                   /\ UNCHANGED <<result, mutex_>>
    /\ UNCHANGED <<fileVars, saves, retired, lastOp, config_, embedding_provider_,
                   text_generator_, next_chunk_id_, providers, use_count, ops>>

\* ------------------------------------------------------------------------
\* RAGBackend::search and search_with_provider
\* ------------------------------------------------------------------------
\* the locked block that copies embedding_provider_ and the config
\* fields, then the availability check
SearchStart(t, top_k) ==
    /\ pc[t] = "idle"
    /\ ops < MaxOps
    /\ mutex_ = NoThread
    /\ ops' = ops + 1
    /\ LET p  == embedding_provider_
           uc == CopyRef(use_count, p)
           f  == [EmptyFrame EXCEPT !.op = "search", !.provider = p,
                                    !.top_k = top_k,
                                    !.dimension = config_.embedding_dimension,
                                    !.similarity_threshold = config_.similarity_threshold]
       IN  IF Unavailable(p)
           THEN /\ Return(t, SearchResult(<<>>, f))
                /\ use_count' = DropRef(uc, p)
                /\ UNCHANGED mutex_
           ELSE /\ use_count' = uc
                /\ mutex_' = SnapshotUnlock(t)
                /\ pc' = [pc EXCEPT ![t] = "s_embed"]
                /\ frame' = [frame EXCEPT ![t] = f]
                /\ UNCHANGED result
    /\ UNCHANGED <<storeVars, fileVars, saves, retired, lastOp, store_mutex_, config_,
                   embedding_provider_, text_generator_, next_chunk_id_, providers>>

\* embed() on the captured provider returns or throws
SearchEmbed(t, threw) ==
    /\ pc[t] = "s_embed"
    /\ LET f == frame[t]
           query_embedding == EmbedVector(UsedProvider(t), <<>>)
       IN  IF threw \/ Len(query_embedding) # UsedDimension(t)
           THEN /\ Return(t, SearchResult(<<>>, [f EXCEPT !.embeds = @ + 1]))
                /\ use_count' = DropRef(use_count, f.provider)
                /\ mutex_' = Unlock(t, mutex_)
           ELSE /\ frame' = [frame EXCEPT ![t] =
                      [f EXCEPT !.embedding = query_embedding,
                                !.embedder = UsedProvider(t),
                                !.embeds = @ + 1]]
                /\ pc' = [pc EXCEPT ![t] = "s_store"]
                /\ UNCHANGED <<result, use_count, mutex_>>
    /\ UNCHANGED <<storeVars, fileVars, saves, retired, lastOp, store_mutex_, config_,
                   embedding_provider_, text_generator_, next_chunk_id_, providers, ops>>

\* vector_store_->search under the store's mutex, then return
SearchStore(t) ==
    /\ pc[t] = "s_store"
    /\ store_mutex_ = NoThread
    /\ LET f == frame[t]
       IN  \E res \in SearchResults(Store, f.embedding, f.top_k,
                                    f.similarity_threshold) :
              Return(t, SearchResult(res, f))
    /\ use_count' = DropRef(use_count, frame[t].provider)
    /\ mutex_' = Unlock(t, mutex_)
    /\ UNCHANGED <<storeVars, fileVars, saves, retired, lastOp, store_mutex_, config_,
                   embedding_provider_, text_generator_, next_chunk_id_, providers, ops>>

\* ------------------------------------------------------------------------
\* RAGBackend::query
\* ------------------------------------------------------------------------
\* the locked block that copies both capabilities and the config, then
\* the two availability checks
QueryStart(t) ==
    /\ pc[t] = "idle"
    /\ ops < MaxOps
    /\ mutex_ = NoThread
    /\ ops' = ops + 1
    /\ LET p  == embedding_provider_
           uc == CopyRef(use_count, p)
           f  == [EmptyFrame EXCEPT !.op = "query", !.provider = p,
                                    !.generator = text_generator_,
                                    !.top_k = config_.top_k,
                                    !.dimension = config_.embedding_dimension,
                                    !.similarity_threshold = config_.similarity_threshold]
       IN  IF Unavailable(p)
           THEN /\ Return(t, QueryResult(FALSE, "Error: Embedding provider not available",
                                         NoMetadata, f))
                /\ use_count' = DropRef(uc, p)
                /\ UNCHANGED mutex_
           ELSE IF text_generator_ # "ready"
           THEN /\ Return(t, QueryResult(FALSE, "Error: Text generator not available",
                                         NoMetadata, f))
                /\ use_count' = DropRef(uc, p)
                /\ UNCHANGED mutex_
           ELSE /\ use_count' = uc
                /\ mutex_' = SnapshotUnlock(t)
                /\ pc' = [pc EXCEPT ![t] = "q_embed"]
                /\ frame' = [frame EXCEPT ![t] = f]
                /\ UNCHANGED result
    /\ UNCHANGED <<storeVars, fileVars, saves, retired, lastOp, store_mutex_, config_,
                   embedding_provider_, text_generator_, next_chunk_id_, providers>>

\* a query that generates whatever the search returned
ShortCut_Never(search_results) == FALSE

\* search_results.empty() in query
ShortCut(search_results) == search_results = <<>>

\* an empty search result reported as an error
NoContext_Error(f) ==
    QueryResult(FALSE, "Error: no relevant documents", NoMetadata, f)

\* query when search_results is empty
NoContext(f) ==
    QueryResult(TRUE, "I don't have enough information to answer that question.",
                [reason |-> "no_context"], f)

\* search_with_provider inside query: embed() returns or throws; the
\* throw is caught there and gives the empty result
QueryEmbed(t, threw) ==
    /\ pc[t] = "q_embed"
    /\ LET f == frame[t]
           query_embedding == EmbedVector(UsedProvider(t), <<>>)
       IN  IF threw \/ Len(query_embedding) # UsedDimension(t)
           THEN /\ Return(t, NoContext([f EXCEPT !.embeds = @ + 1, !.threw = threw]))
                /\ use_count' = DropRef(use_count, f.provider)
                /\ mutex_' = Unlock(t, mutex_)
           ELSE /\ frame' = [frame EXCEPT ![t] =
                      [f EXCEPT !.embedding = query_embedding,
                                !.embedder = UsedProvider(t),
                                !.embeds = @ + 1]]
                /\ pc' = [pc EXCEPT ![t] = "q_store"]
                /\ UNCHANGED <<result, use_count, mutex_>>
    /\ UNCHANGED <<storeVars, fileVars, saves, retired, lastOp, store_mutex_, config_,
                   embedding_provider_, text_generator_, next_chunk_id_, providers, ops>>

\* vector_store_->search inside query, then the empty-result short cut
QueryStore(t) ==
    /\ pc[t] = "q_store"
    /\ store_mutex_ = NoThread
    /\ LET f == frame[t]
       IN  \E res \in SearchResults(Store, f.embedding, f.top_k,
                                    f.similarity_threshold) :
              IF ShortCut(res)
              THEN /\ Return(t, NoContext(f))
                   /\ use_count' = DropRef(use_count, f.provider)
                   /\ mutex_' = Unlock(t, mutex_)
              ELSE /\ frame' = [frame EXCEPT ![t] = [f EXCEPT !.results = res]]
                   /\ pc' = [pc EXCEPT ![t] = "q_generate"]
                   /\ UNCHANGED <<result, use_count, mutex_>>
    /\ UNCHANGED <<storeVars, fileVars, saves, retired, lastOp, store_mutex_, config_,
                   embedding_provider_, text_generator_, next_chunk_id_, providers, ops>>

\* build_context, the prompt, then generate(): it returns a success,
\* returns a failure, or throws; the metadata is attached to a success
QueryGenerate(t, outcome) ==
    /\ pc[t] = "q_generate"
    /\ LET f == [frame[t] EXCEPT !.generates = @ + 1]
           context == BuildContext(f.results)
       IN  CASE outcome = "throw" ->
                  Return(t, QueryResult(FALSE, "Error: generate failed", NoMetadata,
                                        [f EXCEPT !.threw = TRUE]))
             [] outcome = "fail"  ->
                  Return(t, QueryResult(FALSE, "", NoMetadata, f))
             [] outcome = "ok"    ->
                  Return(t, QueryResult(TRUE, "answer",
                                        [num_chunks |-> Len(f.results),
                                         context_length |-> Len(context),
                                         sources |-> Sources(f.results)], f))
    /\ use_count' = DropRef(use_count, frame[t].provider)
    /\ mutex_' = Unlock(t, mutex_)
    /\ UNCHANGED <<storeVars, fileVars, saves, retired, lastOp, store_mutex_, config_,
                   embedding_provider_, text_generator_, next_chunk_id_, providers, ops>>

\* ------------------------------------------------------------------------
\* RAGBackend::clear, get_statistics, document_count
\* ------------------------------------------------------------------------
ClearStart(t) ==
    /\ pc[t] = "idle"
    /\ ops < MaxOps
    /\ mutex_ = NoThread
    /\ ops' = ops + 1
    /\ mutex_' = t
    /\ pc' = [pc EXCEPT ![t] = "c_store"]
    /\ frame' = [frame EXCEPT ![t] = [EmptyFrame EXCEPT !.op = "clear"]]
    /\ UNCHANGED <<storeVars, fileVars, saves, retired, lastOp, store_mutex_, config_,
                   embedding_provider_, text_generator_, next_chunk_id_, providers,
                   use_count, result>>

\* vector_store_->clear() takes the store's mutex
ClearStoreLock(t) ==
    /\ pc[t] = "c_store"
    /\ store_mutex_ = NoThread
    /\ store_mutex_' = t
    /\ pc' = [pc EXCEPT ![t] = "c_clear"]
    /\ UNCHANGED <<storeVars, fileVars, saves, retired, lastOp, config_,
                   embedding_provider_, text_generator_, next_chunk_id_, mutex_,
                   providers, use_count, frame, result, ops>>

\* the store is emptied and unlocked, next_chunk_id_ = 0, return
ClearFinish(t) ==
    /\ pc[t] = "c_clear"
    /\ SetStore(Cleared)
    /\ store_mutex_' = Unlock(t, store_mutex_)
    /\ next_chunk_id_' = 0
    /\ Return(t, [op |-> "clear"])
    /\ mutex_' = Unlock(t, mutex_)
    /\ UNCHANGED <<fileVars, saves, retired, lastOp, config_, embedding_provider_,
                   text_generator_, providers, use_count, ops>>

GetStatisticsStart(t) ==
    /\ pc[t] = "idle"
    /\ ops < MaxOps
    /\ mutex_ = NoThread
    /\ ops' = ops + 1
    /\ mutex_' = t
    /\ pc' = [pc EXCEPT ![t] = "g_store"]
    /\ frame' = [frame EXCEPT ![t] = [EmptyFrame EXCEPT !.op = "get_statistics"]]
    /\ UNCHANGED <<storeVars, fileVars, saves, retired, lastOp, store_mutex_, config_,
                   embedding_provider_, text_generator_, next_chunk_id_, providers,
                   use_count, result>>

\* vector_store_->get_statistics() takes the store's mutex
GetStatisticsStoreLock(t) ==
    /\ pc[t] = "g_store"
    /\ store_mutex_ = NoThread
    /\ store_mutex_' = t
    /\ pc' = [pc EXCEPT ![t] = "g_stats"]
    /\ UNCHANGED <<storeVars, fileVars, saves, retired, lastOp, config_,
                   embedding_provider_, text_generator_, next_chunk_id_, mutex_,
                   providers, use_count, frame, result, ops>>

\* the store's figures, then the config, then return
GetStatisticsFinish(t) ==
    /\ pc[t] = "g_stats"
    /\ store_mutex_' = Unlock(t, store_mutex_)
    /\ Return(t, [op |-> "get_statistics", num_chunks |-> Size, dimension |-> Dimension,
                  config |-> config_])
    /\ mutex_' = Unlock(t, mutex_)
    /\ UNCHANGED <<storeVars, fileVars, saves, retired, lastOp, config_,
                   embedding_provider_, text_generator_, next_chunk_id_, providers,
                   use_count, ops>>

\* document_count: vector_store_->size() without mutex_
DocumentCount(t) ==
    /\ pc[t] = "idle"
    /\ ops < MaxOps
    /\ store_mutex_ = NoThread
    /\ ops' = ops + 1
    /\ result' = [result EXCEPT ![t] = [op |-> "document_count", ret |-> Size]]
    /\ UNCHANGED <<storeVars, fileVars, saves, retired, lastOp, store_mutex_, config_,
                   embedding_provider_, text_generator_, next_chunk_id_, mutex_,
                   providers, use_count, pc, frame>>

\* ------------------------------------------------------------------------
\* RAGBackend::set_embedding_provider, set_text_generator
\* ------------------------------------------------------------------------
\* the searches and queries that are past their locked block
InFlightSearch(t) == pc[t] \in {"s_embed", "s_store", "q_embed", "q_store", "q_generate"}

SetEmbeddingProvider(t, arg) ==
    /\ pc[t] = "idle"
    /\ ops < MaxOps
    /\ mutex_ = NoThread
    /\ ops' = ops + 1
    /\ LET old == embedding_provider_
           new == IF arg.null THEN Null ELSE Cardinality(DOMAIN providers) + 1
       IN  /\ embedding_provider_' = new
           /\ IF arg.null
              THEN /\ UNCHANGED providers
                   /\ use_count' = DropRef(use_count, old)
              ELSE /\ providers' = Put(providers, new,
                                       [dimension |-> arg.dimension, ready |-> arg.ready])
                   /\ use_count' = Put(DropRef(use_count, old), new, 1)
           /\ IF ~arg.null /\ arg.ready
              THEN config_' = [config_ EXCEPT !.embedding_dimension = arg.dimension]
              ELSE UNCHANGED config_
    /\ frame' = [u \in Threads |->
                   IF InFlightSearch(u) THEN [frame[u] EXCEPT !.swapped = TRUE]
                   ELSE frame[u]]
    /\ result' = [result EXCEPT ![t] = [op |-> "set_embedding_provider"]]
    /\ UNCHANGED <<storeVars, fileVars, saves, retired, lastOp, store_mutex_,
                   text_generator_, next_chunk_id_, mutex_, pc>>

SetTextGenerator(t, gen) ==
    /\ pc[t] = "idle"
    /\ ops < MaxOps
    /\ mutex_ = NoThread
    /\ ops' = ops + 1
    /\ text_generator_' = gen
    /\ result' = [result EXCEPT ![t] = [op |-> "set_text_generator"]]
    /\ UNCHANGED <<storeVars, fileVars, saves, retired, lastOp, store_mutex_, config_,
                   embedding_provider_, next_chunk_id_, mutex_, providers, use_count,
                   pc, frame>>

\* ------------------------------------------------------------------------
\* RAGBackend: specification
\* ------------------------------------------------------------------------
\* the constructor: a ready provider of either dimension, a ready generator
BackendInit ==
    /\ store_mutex_ = NoThread
    /\ config_ = BackendConfig
    /\ embedding_provider_ = 1
    /\ \E d \in ProviderDims : providers = (1 :> [dimension |-> d, ready |-> TRUE])
    /\ use_count = (1 :> 1)
    /\ text_generator_ = "ready"
    /\ next_chunk_id_ = 0
    /\ mutex_ = NoThread
    /\ pc = [t \in Threads |-> "idle"]
    /\ frame = [t \in Threads |-> EmptyFrame]
    /\ result = [t \in Threads |-> NoResult]
    /\ ops = 0

\* ------------------------------------------------------------------------
\* Specifications of the store alone
\* ------------------------------------------------------------------------
\* the engine is not reached for a vector of the wrong length
BatchItems ==
    {it \in [chunk : BatchChunks, engineOk : BOOLEAN] :
        DimensionMismatch(it.chunk.embedding) => it.engineOk}

Batches == UNION {[1..n -> BatchItems] : n \in 1..MaxBatch}

StoreInit ==
    /\ index_ = EmptyMap
    /\ chunks_ = EmptyMap
    /\ id_to_key_ = EmptyMap
    /\ next_key_ = 0
    /\ indexFile = [p \in Paths |-> Absent]
    /\ metaFile = [p \in Paths |-> Absent]
    /\ persisted = [p \in Paths |-> NotPersisted]
    /\ saves = 0
    /\ retired = {}
    /\ lastOp = NoOp

\* the store of a backend that is left alone
StoreAloneInit ==
    /\ StoreInit
    /\ BackendInit
    /\ providers[1].dimension = Dimension

AddChunkStep == \E c \in StoreChunks, ok \in BOOLEAN : StoreAddChunk(c, ok)

AddChunksBatchStep == \E items \in Batches : StoreAddChunksBatch(items)

SearchStep ==
    \E q \in QueryVectors, k \in TopKs, th \in Thresholds : StoreSearch(q, k, th)

RemoveChunkStep == \E id \in StoreIds, ok \in BOOLEAN : StoreRemoveChunk(id, ok)

SaveStep == \E p \in Paths, iok \in BOOLEAN, sok \in BOOLEAN : StoreSave(p, iok, sok)

LoadStep == \E p \in Paths : StoreLoad(p)

vars == <<storeVars, fileVars, saves, retired, lastOp, backendVars>>

\* add / batch / remove / clear / search only
KeysNext ==
    \/ AddChunkStep
    \/ AddChunksBatchStep
    \/ RemoveChunkStep
    \/ StoreClear
    \/ SearchStep

SpecKeys == StoreAloneInit /\ [][KeysNext]_vars

\* every public operation, persistence included; the chunks and queries
\* are drawn from the smaller sets
SmallAddChunkStep == \E c \in BatchChunks, ok \in BOOLEAN : StoreAddChunk(c, ok)

SmallSearchStep == \E q \in {<<1, 0>>, <<1>>} : StoreSearch(q, 2, 10)

StoreNext ==
    \/ SmallAddChunkStep
    \/ AddChunksBatchStep
    \/ RemoveChunkStep
    \/ StoreClear
    \/ SmallSearchStep
    \/ SaveStep
    \/ LoadStep

SpecStore == StoreAloneInit /\ [][StoreNext]_vars

\* insertions of two well-formed chunks, removals, clear, save and load
PersistChunks ==
    { [id |-> ChunkId(0), text |-> <<"a">>, embedding |-> <<1, 0>>, metadata |-> Meta0],
      [id |-> ChunkId(1), text |-> <<"b">>, embedding |-> <<1, 5>>, metadata |-> Meta0] }

PersistAddChunkStep == \E c \in PersistChunks : StoreAddChunk(c, TRUE)

PersistNext ==
    \/ PersistAddChunkStep
    \/ RemoveChunkStep
    \/ StoreClear
    \/ SaveStep
    \/ LoadStep

SpecPersist == StoreAloneInit /\ [][PersistNext]_vars

\* load reads files that earlier save() calls left at the path: the index
\* file is the one of the last save that got as far as writing it, the
\* sidecar the one of the last save that returned true, if any
FileStores ==
    LET c0 == [id |-> ChunkId(0), text |-> <<"a">>, embedding |-> <<1, 0>>, metadata |-> Meta0]
        c1 == [id |-> ChunkId(1), text |-> <<"b">>, embedding |-> <<1, 5>>, metadata |-> Meta0]
        s1 == AddOne(Cleared, c0, TRUE).store
        s2 == AddOne(s1, c1, TRUE).store
        s3 == RemoveOne(s2, ChunkId(0), TRUE).store
    IN  {Cleared, s1, s2, s3}

LoadInit ==
    /\ index_ = EmptyMap
    /\ chunks_ = EmptyMap
    /\ id_to_key_ = EmptyMap
    /\ next_key_ = 0
    /\ \E i \in {Absent} \cup {File(s.index) : s \in FileStores},
          m \in {Absent} \cup {File(Sidecar(s)) : s \in FileStores} :
          /\ i = Absent => m = Absent
          /\ indexFile = [p \in Paths |-> i]
          /\ metaFile = [p \in Paths |-> m]
    /\ persisted = [p \in Paths |-> NotPersisted]
    /\ saves = 0
    /\ retired = {}
    /\ lastOp = NoOp
    /\ BackendInit
    /\ providers[1].dimension = Dimension

\* load, insertions and removals
LoadNext ==
    \/ LoadStep
    \/ PersistAddChunkStep
    \/ RemoveChunkStep

SpecLoad == LoadInit /\ [][LoadNext]_vars

\* searches of a store built by load, insertions and removals; the files
\* at the path may leave the index with keys the maps do not know
SearchNext ==
    \/ SearchStep
    \/ LoadStep
    \/ PersistAddChunkStep
    \/ RemoveChunkStep

SpecSearch == LoadInit /\ [][SearchNext]_vars

\* ------------------------------------------------------------------------
\* Specification of the backend: threads calling its public operations
\* ------------------------------------------------------------------------
Init == StoreInit /\ BackendInit

Next ==
    \/ \E t \in Threads, d \in Docs : AddDocumentStart(t, d)
    \/ \E t \in Threads, threw \in BOOLEAN : AddDocumentEmbed(t, threw, FALSE)
    \/ \E t \in Threads, engineOk \in BOOLEAN : AddDocumentStoreIndex(t, engineOk)
    \/ \E t \in Threads : AddDocumentStoreMeta(t)
    \/ \E t \in Threads, k \in TopKs : SearchStart(t, k)
    \/ \E t \in Threads, threw \in BOOLEAN : SearchEmbed(t, threw)
    \/ \E t \in Threads : SearchStore(t)
    \/ \E t \in Threads : QueryStart(t)
    \/ \E t \in Threads, threw \in BOOLEAN : QueryEmbed(t, threw)
    \/ \E t \in Threads : QueryStore(t)
    \/ \E t \in Threads, o \in {"ok", "fail", "throw"} : QueryGenerate(t, o)
    \/ \E t \in Threads : ClearStart(t)
    \/ \E t \in Threads : ClearStoreLock(t)
    \/ \E t \in Threads : ClearFinish(t)
    \/ \E t \in Threads : GetStatisticsStart(t)
    \/ \E t \in Threads : GetStatisticsStoreLock(t)
    \/ \E t \in Threads : GetStatisticsFinish(t)
    \/ \E t \in Threads : DocumentCount(t)
    \/ \E t \in Threads, a \in ProviderArgs : SetEmbeddingProvider(t, a)
    \/ \E t \in Threads, g \in Generators : SetTextGenerator(t, g)

Spec == Init /\ [][Next]_vars

\* ------------------------------------------------------------------------
\* Specification of DocumentChunker::chunk_document: a text and a
\* configuration are drawn, then the document is chunked
\* ------------------------------------------------------------------------
ChunkTexts ==
    { <<"h", "i">>,
      <<"a", "b", "c", ".", " ", "e", "f", "g">>,
      <<"a", "b", ".", " ", "c", "d", ".", " ", "e", "f">>,
      <<"a", "b", " ", "c", "d", " ", "e", "f">>,
      <<"a", ".", " ", "b", "!", " ", "c", "?">>,
      <<" ", " ", " ">>,
      <<"a", "b", "c", ".", "\n", " ", " ", " ", " ">>,
      <<"a", "b", "c", "d", ".", " ", "e", "\n">>,
      <<"a", "b", "c", "d", ".", "\n">>,
      <<"a", "b", "c", "d", ".", " ", "e", "f", "g", "h", ".", " ">>,
      <<"a", "b", "c", "d", "e", "f", "g", ".", " ", "h", "i">>,
      <<>> }

\* ChunkerConfig values; the overlap may be below, equal to or above the
\* chunk size
ChunkConfigs ==
    [chunk_size : {0, 1, 2, 3, 4}, chunk_overlap : {0, 1, 2}, chars_per_token : {1, 2, CharsPerToken}]

ChunkInit ==
    /\ StoreInit
    /\ store_mutex_ = NoThread
    /\ config_ = BackendConfig
    /\ embedding_provider_ = 1
    /\ providers = (1 :> [dimension |-> Dimension, ready |-> TRUE])
    /\ use_count = (1 :> 1)
    /\ text_generator_ = "ready"
    /\ next_chunk_id_ = 0
    /\ mutex_ = NoThread
    /\ pc = [t \in Threads |-> IF t = "t1" THEN "chunk_document" ELSE "idle"]
    /\ \E text \in ChunkTexts, cfg \in ChunkConfigs :
           frame = [t \in Threads |->
                       IF t = "t1"
                       THEN [op |-> "chunk_document", text |-> text, config |-> cfg]
                       ELSE EmptyFrame]
    /\ result = [t \in Threads |-> NoResult]
    /\ ops = 0

\* chunk_document; finished is false when the loop of split_by_boundaries
\* was still running after MaxLoop iterations
ChunkDocumentCall(t) ==
    /\ pc[t] = "chunk_document"
    /\ LET f == frame[t]
           r == IF f.text = <<>> THEN [chunks |-> <<>>, finished |-> TRUE]
                ELSE SplitLoop(f.text, FindSentenceBoundaries(f.text), f.config,
                               <<>>, 0, 0, MaxLoop)
       IN  result' = [result EXCEPT ![t] =
                         [op |-> "chunk_document", text |-> f.text, config |-> f.config,
                          chunks |-> IF r.finished THEN ChunkDocument(f.text, f.config)
                                     ELSE r.chunks,
                          finished |-> r.finished]]
    /\ pc' = [pc EXCEPT ![t] = "idle"]
    /\ frame' = [frame EXCEPT ![t] = EmptyFrame]
    /\ UNCHANGED <<storeVars, fileVars, saves, retired, lastOp, store_mutex_, config_,
                   embedding_provider_, text_generator_, next_chunk_id_, mutex_,
                   providers, use_count, ops>>

ChunkNext == \E t \in Threads : ChunkDocumentCall(t)

SpecChunk == ChunkInit /\ [][ChunkNext]_vars

\* ------------------------------------------------------------------------
\* Specification of the prompt formatting of query: a template, the search
\* results and a question are drawn, then the prompt is formed
\* ------------------------------------------------------------------------
\* the default template of RAGBackendConfig, shortened around the
\* placeholders, and templates with the placeholders in other arrangements
PromptTemplates ==
    { <<"C", ":">> \o ContextPlaceholder \o <<"Q", ":">> \o QueryPlaceholder \o <<"A", ":">>,
      QueryPlaceholder \o <<" ">> \o ContextPlaceholder,
      ContextPlaceholder \o QueryPlaceholder,
      ContextPlaceholder \o <<" ">> \o QueryPlaceholder \o <<" ">> \o ContextPlaceholder,
      QueryPlaceholder \o ContextPlaceholder \o QueryPlaceholder }

\* chunk texts: plain text, and text that holds a placeholder
PromptTexts ==
    { <<"x">>, QueryPlaceholder, ContextPlaceholder, <<"x">> \o QueryPlaceholder }

\* search results as far as build_context reads them
PromptResults ==
    {<<[text |-> a]>> : a \in PromptTexts} \cup {<<[text |-> <<"x">>], [text |-> <<"y">>]>>}

\* questions
PromptQueries ==
    { <<"w">>, <<>>, QueryPlaceholder, ContextPlaceholder, <<"{", "q">> }

PromptInit ==
    /\ StoreInit
    /\ store_mutex_ = NoThread
    /\ config_ = BackendConfig
    /\ embedding_provider_ = 1
    /\ providers = (1 :> [dimension |-> Dimension, ready |-> TRUE])
    /\ use_count = (1 :> 1)
    /\ text_generator_ = "ready"
    /\ next_chunk_id_ = 0
    /\ mutex_ = NoThread
    /\ pc = [t \in Threads |-> IF t = "t1" THEN "q_prompt" ELSE "idle"]
    /\ \E tm \in PromptTemplates, rs \in PromptResults, q \in PromptQueries :
           frame = [t \in Threads |->
                       IF t = "t1"
                       THEN [op |-> "prompt", prompt_template |-> tm,
                             results |-> rs, query |-> q]
                       ELSE EmptyFrame]
    /\ result = [t \in Threads |-> NoResult]
    /\ ops = 0

\* build_context and the two replacements of query
QueryFormatPrompt(t) ==
    /\ pc[t] = "q_prompt"
    /\ LET f       == frame[t]
           context == BuildContext(f.results)
       IN  result' = [result EXCEPT ![t] =
                         [op |-> "prompt", prompt_template |-> f.prompt_template,
                          context |-> context, query |-> f.query,
                          prompt |-> FormatPrompt(f.prompt_template, f.query, context)]]
    /\ pc' = [pc EXCEPT ![t] = "idle"]
    /\ frame' = [frame EXCEPT ![t] = EmptyFrame]
    /\ UNCHANGED <<storeVars, fileVars, saves, retired, lastOp, store_mutex_, config_,
                   embedding_provider_, text_generator_, next_chunk_id_, mutex_,
                   providers, use_count, ops>>

PromptNext == \E t \in Threads : QueryFormatPrompt(t)

SpecPrompt == PromptInit /\ [][PromptNext]_vars

\* ------------------------------------------------------------------------
\* Specification of the backend called by one thread, one call after the
\* other, with an embedder that may also return vectors that are too short
\* ------------------------------------------------------------------------
Caller == "t1"

CallsNext ==
    \/ \E d \in Docs : AddDocumentStart(Caller, d)
    \/ \E threw \in BOOLEAN, short \in BOOLEAN : AddDocumentEmbed(Caller, threw, short)
    \/ \E engineOk \in BOOLEAN : AddDocumentStoreIndex(Caller, engineOk)
    \/ AddDocumentStoreMeta(Caller)
    \/ \E k \in TopKs : SearchStart(Caller, k)
    \/ \E threw \in BOOLEAN : SearchEmbed(Caller, threw)
    \/ SearchStore(Caller)
    \/ QueryStart(Caller)
    \/ \E threw \in BOOLEAN : QueryEmbed(Caller, threw)
    \/ QueryStore(Caller)
    \/ \E o \in {"ok", "fail", "throw"} : QueryGenerate(Caller, o)
    \/ ClearStart(Caller)
    \/ ClearStoreLock(Caller)
    \/ ClearFinish(Caller)
    \/ GetStatisticsStart(Caller)
    \/ GetStatisticsStoreLock(Caller)
    \/ GetStatisticsFinish(Caller)
    \/ DocumentCount(Caller)
    \/ \E a \in ProviderArgs : SetEmbeddingProvider(Caller, a)
    \/ \E g \in Generators : SetTextGenerator(Caller, g)

SpecCalls == Init /\ [][CallsNext]_vars

\* ------------------------------------------------------------------------
\* Specification of add_document and clear called concurrently by the threads
\* ------------------------------------------------------------------------
AddClearNext ==
    \/ \E t \in Threads, d \in Docs : AddDocumentStart(t, d)
    \/ \E t \in Threads, threw \in BOOLEAN, short \in BOOLEAN :
          AddDocumentEmbed(t, threw, short)
    \/ \E t \in Threads, engineOk \in BOOLEAN : AddDocumentStoreIndex(t, engineOk)
    \/ \E t \in Threads : AddDocumentStoreMeta(t)
    \/ \E t \in Threads : ClearStart(t)
    \/ \E t \in Threads : ClearStoreLock(t)
    \/ \E t \in Threads : ClearFinish(t)

SpecAddClear == Init /\ [][AddClearNext]_vars

\* ------------------------------------------------------------------------
\* Specification of all the public operations called by the threads, where
\* a thread inside a call keeps running: every capability call returns and
\* a thread that can take a step does not wait forever
\* ------------------------------------------------------------------------
\* the documents, provider arguments and generators the calls are given
LiveDocs == {<<"a", "b", ".", " ", "c", "d", ".", " ", "e", "f">>}

LiveProviderArgs ==
    {[null |-> TRUE, dimension |-> 0, ready |-> FALSE],
     [null |-> FALSE, dimension |-> Dimension, ready |-> TRUE]}

LiveGenerators == {"null", "ready"}

\* the store of the backend when the threads start: empty, or holding the
\* chunk of a document added before
LiveStores ==
    {Cleared,
     AddOne(Cleared, [id |-> ChunkId(0), text |-> <<"h", "i">>, embedding |-> <<1, 1>>,
                      metadata |-> [source_text |-> <<"h", "i">>]], TRUE).store}

\* the backend as earlier calls left it: the store, the provider slot
\* (the constructor's provider or nullptr) and the generator slot
LiveInit ==
    /\ \E s \in LiveStores :
          /\ index_ = s.index
          /\ chunks_ = s.chunks
          /\ id_to_key_ = s.ids
          /\ next_key_ = s.next
          /\ next_chunk_id_ = s.next
    /\ indexFile = [p \in Paths |-> Absent]
    /\ metaFile = [p \in Paths |-> Absent]
    /\ persisted = [p \in Paths |-> NotPersisted]
    /\ saves = 0
    /\ retired = {}
    /\ lastOp = NoOp
    /\ store_mutex_ = NoThread
    /\ config_ = BackendConfig
    /\ providers = (1 :> [dimension |-> Dimension, ready |-> TRUE])
    /\ \E p \in {1, Null} :
          /\ embedding_provider_ = p
          /\ use_count = (1 :> IF p = 1 THEN 1 ELSE 0)
    /\ text_generator_ \in LiveGenerators
    /\ mutex_ = NoThread
    /\ pc = [t \in Threads |-> "idle"]
    /\ frame = [t \in Threads |-> EmptyFrame]
    /\ result = [t \in Threads |-> NoResult]
    /\ ops = 0

\* a call starts
CallStart(t) ==
    \/ \E d \in LiveDocs : AddDocumentStart(t, d)
    \/ SearchStart(t, BackendConfig.top_k)
    \/ QueryStart(t)
    \/ ClearStart(t)
    \/ GetStatisticsStart(t)
    \/ DocumentCount(t)
    \/ \E a \in LiveProviderArgs : SetEmbeddingProvider(t, a)
    \/ \E g \in LiveGenerators : SetTextGenerator(t, g)

\* a thread inside a call takes its next step
CallStep(t) ==
    \/ \E threw \in BOOLEAN : AddDocumentEmbed(t, threw, FALSE)
    \/ \E engineOk \in BOOLEAN : AddDocumentStoreIndex(t, engineOk)
    \/ AddDocumentStoreMeta(t)
    \/ \E threw \in BOOLEAN : SearchEmbed(t, threw)
    \/ SearchStore(t)
    \/ \E threw \in BOOLEAN : QueryEmbed(t, threw)
    \/ QueryStore(t)
    \/ \E o \in {"ok", "fail", "throw"} : QueryGenerate(t, o)
    \/ ClearStoreLock(t)
    \/ ClearFinish(t)
    \/ GetStatisticsStoreLock(t)
    \/ GetStatisticsFinish(t)

\* every thread makes one call
LiveNext == \E t \in Threads : (result[t] = NoResult /\ CallStart(t)) \/ CallStep(t)

SpecLive == LiveInit /\ [][LiveNext]_vars /\ \A t \in Threads : WF_vars(CallStep(t))

\* ------------------------------------------------------------------------
\* Specification of search and query called concurrently with
\* set_embedding_provider, on a backend as earlier calls left it
\* ------------------------------------------------------------------------
SwapNext ==
    \/ \E t \in Threads, k \in TopKs : SearchStart(t, k)
    \/ \E t \in Threads, threw \in BOOLEAN : SearchEmbed(t, threw)
    \/ \E t \in Threads : SearchStore(t)
    \/ \E t \in Threads : QueryStart(t)
    \/ \E t \in Threads, threw \in BOOLEAN : QueryEmbed(t, threw)
    \/ \E t \in Threads : QueryStore(t)
    \/ \E t \in Threads, o \in {"ok", "fail", "throw"} : QueryGenerate(t, o)
    \/ \E t \in Threads, a \in ProviderArgs : SetEmbeddingProvider(t, a)

SpecSwap == LiveInit /\ [][SwapNext]_vars

\* ------------------------------------------------------------------------
\* Specification of the C API of the pipeline (rac_rag_add_document,
\* rac_rag_add_documents_batch) called by one thread; each call is one step
\* ------------------------------------------------------------------------
\* rac_result_t values
RAC_SUCCESS == "RAC_SUCCESS"
RAC_ERROR_NULL_POINTER == "RAC_ERROR_NULL_POINTER"
RAC_ERROR_PROCESSING_FAILED == "RAC_ERROR_PROCESSING_FAILED"

\* a document pointer: nullptr or a text
PipelineDocs ==
    {[null |-> TRUE, text |-> <<>>]} \cup {[null |-> FALSE, text |-> d] : d \in Docs}

\* what happens while a document is added: nothing, or at chunk number `at`
\* embed() throws, returns a short vector, or the engine refuses the vector
DocOutcomes ==
    {[kind |-> "ok", at |-> 0]}
      \cup [kind : {"throw", "short", "refuse"}, at : {1, 2}]

\* the for loop of add_document over the chunks, from chunk number pos
RECURSIVE AddDocumentLoop(_, _, _, _, _, _)
AddDocumentLoop(s, next_id, chunks, pos, o, source) ==
    IF chunks = <<>> THEN [store |-> s, next_id |-> next_id, ret |-> TRUE]
    ELSE LET here      == o.at = pos
             embedding == IF here /\ o.kind = "short" THEN ShortVector
                          ELSE EmbedVector(embedding_provider_, Head(chunks).text)
             chunk     == [id |-> ChunkId(next_id),
                           text |-> Head(chunks).text,
                           embedding |-> embedding,
                           metadata |-> [source_text |-> Substr(source, 0, 100)]]
             r         == AddOne(s, chunk, ~(here /\ o.kind = "refuse"))
         IN  IF here /\ o.kind = "throw"
             THEN [store |-> s, next_id |-> next_id, ret |-> FALSE]
             ELSE IF Len(embedding) # config_.embedding_dimension
             THEN AddDocumentLoop(s, next_id, Tail(chunks), pos + 1, o, source)
             ELSE IF ~r.ok
             THEN [store |-> r.store, next_id |-> next_id + 1, ret |-> FALSE]
             ELSE AddDocumentLoop(r.store, next_id + 1, Tail(chunks), pos + 1, o, source)

\* RAGBackend::add_document as one step
AddDocument(s, next_id, text, o) ==
    IF Unavailable(embedding_provider_)
    THEN [store |-> s, next_id |-> next_id, ret |-> FALSE]
    ELSE AddDocumentLoop(s, next_id, ChunkDocument(text, ChunkerConfig), 1, o, text)

\* rac_rag_add_document
RacRagAddDocument(s, next_id, doc, o) ==
    IF doc.null
    THEN [store |-> s, next_id |-> next_id, code |-> RAC_ERROR_NULL_POINTER]
    ELSE LET r == AddDocument(s, next_id, doc.text, o)
         IN  [store |-> r.store, next_id |-> r.next_id,
              code |-> IF r.ret THEN RAC_SUCCESS ELSE RAC_ERROR_PROCESSING_FAILED]

\* the for loop of rac_rag_add_documents_batch; codes collects the result of
\* every rac_rag_add_document call
RECURSIVE BatchLoop(_, _, _, _, _)
BatchLoop(s, next_id, documents, outcomes, codes) ==
    IF documents = <<>> THEN [store |-> s, next_id |-> next_id, codes |-> codes]
    ELSE LET r == RacRagAddDocument(s, next_id, Head(documents), Head(outcomes))
         IN  BatchLoop(r.store, r.next_id, Tail(documents), Tail(outcomes),
                       Append(codes, r.code))

\* the code rac_rag_add_documents_batch returns after its loop
BatchCode(codes) == RAC_SUCCESS

\* number of chunks the documents are split into
RECURSIVE ChunkTotal(_)
ChunkTotal(documents) ==
    IF documents = <<>> THEN 0
    ELSE Len(ChunkDocument(Head(documents).text, ChunkerConfig)) + ChunkTotal(Tail(documents))

RacRagAddDocumentCall(t, doc, o) ==
    /\ pc[t] = "idle"
    /\ ops < MaxOps
    /\ mutex_ = NoThread
    /\ store_mutex_ = NoThread
    /\ next_key_ + ChunkTotal(<<doc>>) <= MaxKey
    /\ next_chunk_id_ + ChunkTotal(<<doc>>) <= MaxKey
    /\ ops' = ops + 1
    /\ LET r == RacRagAddDocument(Store, next_chunk_id_, doc, o)
       IN  /\ SetStore(r.store)
           /\ next_chunk_id_' = r.next_id
           /\ result' = [result EXCEPT ![t] =
                 [op |-> "rac_rag_add_document", ret |-> r.code]]
    /\ UNCHANGED <<fileVars, saves, retired, lastOp, store_mutex_, config_,
                   embedding_provider_, text_generator_, mutex_, providers, use_count,
                   pc, frame>>

RacRagAddDocumentsBatch(t, documents_null, documents, outcomes) ==
    /\ pc[t] = "idle"
    /\ ops < MaxOps
    /\ mutex_ = NoThread
    /\ store_mutex_ = NoThread
    /\ next_key_ + ChunkTotal(documents) <= MaxKey
    /\ next_chunk_id_ + ChunkTotal(documents) <= MaxKey
    /\ ops' = ops + 1
    /\ IF documents_null
       THEN /\ result' = [result EXCEPT ![t] =
                  [op |-> "rac_rag_add_documents_batch", ret |-> RAC_ERROR_NULL_POINTER,
                   count |-> Len(documents), codes |-> <<>>]]
            /\ UNCHANGED <<storeVars, next_chunk_id_>>
       ELSE LET r == BatchLoop(Store, next_chunk_id_, documents, outcomes, <<>>)
            IN  /\ SetStore(r.store)
                /\ next_chunk_id_' = r.next_id
                /\ result' = [result EXCEPT ![t] =
                      [op |-> "rac_rag_add_documents_batch", ret |-> BatchCode(r.codes),
                       count |-> Len(documents), codes |-> r.codes]]
    /\ UNCHANGED <<fileVars, saves, retired, lastOp, store_mutex_, config_,
                   embedding_provider_, text_generator_, mutex_, providers, use_count,
                   pc, frame>>

PipelineNext ==
    \/ \E doc \in PipelineDocs, o \in DocOutcomes : RacRagAddDocumentCall(Caller, doc, o)
    \/ \E n \in 0..MaxBatch :
          \E documents \in [1..n -> PipelineDocs], outcomes \in [1..n -> DocOutcomes] :
             RacRagAddDocumentsBatch(Caller, FALSE, documents, outcomes)
    \/ RacRagAddDocumentsBatch(Caller, TRUE, <<>>, <<>>)
    \/ \E a \in ProviderArgs : SetEmbeddingProvider(Caller, a)

SpecPipeline == Init /\ [][PipelineNext]_vars

\* ------------------------------------------------------------------------
\* Properties of the store
\* ------------------------------------------------------------------------

\* C1: under add_chunk, add_chunks_batch, remove_chunk and clear, no two
\* live chunks share an internal key, and a key retired by remove_chunk is
\* not allocated again before the next clear().
KeyMonotonicity ==
    /\ \A i, j \in DOMAIN id_to_key_ : i # j => id_to_key_[i] # id_to_key_[j]
    /\ \A k1, k2 \in DOMAIN chunks_ : chunks_[k1].id = chunks_[k2].id => k1 = k2
    /\ retired \cap (DOMAIN chunks_ \cup DOMAIN index_) = {}

\* a chunk was accepted after an earlier key had been retired
KeyMonotonicityWitness ==
    /\ lastOp.op \in {"add_chunk", "add_chunks_batch"}
    /\ lastOp.ret = TRUE
    /\ retired # {}
    /\ \E k \in DOMAIN chunks_ : \A r \in retired : k > r

\* C2: after any sequence of public operations, failed ones included, the
\* engine's key set equals the key set of chunks_, id_to_key_ is the exact
\* inverse view of chunks_, and index_.size() equals chunks_.size().
StoreConsistent ==
    /\ DOMAIN index_ = DOMAIN chunks_
    /\ DOMAIN id_to_key_ = {chunks_[k].id : k \in DOMAIN chunks_}
    /\ \A k \in DOMAIN chunks_ :
          chunks_[k].id \in DOMAIN id_to_key_ /\ id_to_key_[chunks_[k].id] = k
    /\ Size = Cardinality(DOMAIN chunks_)

\* C3: add_chunk with an id that is already live returns false and leaves
\* the engine, both maps and the key counter as they were.
DuplicateIdRejected ==
    [][(lastOp'.op = "add_chunk" /\ lastOp'.arg.id \in DOMAIN id_to_key_)
          => (lastOp'.ret = FALSE /\ UNCHANGED storeVars)]_vars

\* an add_chunk of the right dimension was refused although its id is live
DuplicateIdRejectedWitness ==
    /\ lastOp.op = "add_chunk"
    /\ lastOp.arg.len = Dimension
    /\ lastOp.arg.id \in DOMAIN id_to_key_
    /\ lastOp.ret = FALSE
    /\ next_key_ = Cardinality(DOMAIN chunks_)

\* the number of items of a batch whose vector has the configured length
RECURSIVE CountValid(_)
CountValid(briefs) ==
    IF briefs = <<>> THEN 0
    ELSE (IF Head(briefs).len = Dimension THEN 1 ELSE 0) + CountValid(Tail(briefs))

\* C4: a vector whose length differs from the configured dimension is
\* refused by add_chunk (false, nothing changed), skipped by
\* add_chunks_batch (no key consumed, nothing stored for it), and as a
\* query makes search return the empty result.
DimensionGate ==
    [][/\ (lastOp'.op = "add_chunk" /\ lastOp'.arg.len # Dimension)
            => (lastOp'.ret = FALSE /\ UNCHANGED storeVars)
       /\ lastOp'.op = "add_chunks_batch"
            => /\ next_key_' - next_key_ <= CountValid(lastOp'.arg)
               /\ \A k \in DOMAIN chunks_' : Len(chunks_'[k].embedding) = Dimension
               /\ \A k \in DOMAIN index_' : Len(index_'[k]) = Dimension
               /\ \A id \in (DOMAIN id_to_key_') \ (DOMAIN id_to_key_) :
                     \E i \in 1..Len(lastOp'.arg) :
                        lastOp'.arg[i].id = id /\ lastOp'.arg[i].len = Dimension
       /\ (lastOp'.op = "search" /\ lastOp'.arg # Dimension)
            => (lastOp'.ret = <<>> /\ UNCHANGED storeVars)
      ]_vars

\* a batch whose first item has the wrong length and whose second item
\* was stored
DimensionGateWitness ==
    /\ lastOp.op = "add_chunks_batch"
    /\ Len(lastOp.arg) = 2
    /\ lastOp.arg[1].len # Dimension
    /\ lastOp.arg[2].len = Dimension
    /\ lastOp.arg[1].id # lastOp.arg[2].id
    /\ lastOp.ret = TRUE
    /\ lastOp.arg[2].id \in DOMAIN id_to_key_
    /\ lastOp.arg[1].id \notin DOMAIN id_to_key_

\* C5: every chunk held in the backend's store has an embedding whose
\* length equals the backend's current config_.embedding_dimension.
EmbeddingLengthMatchesConfig ==
    \A k \in DOMAIN chunks_ :
        Len(chunks_[k].embedding) = config_.embedding_dimension

\* C6: a search running against provider swaps never calls a destroyed
\* provider and never deadlocks: a provider's reference count is the slot's
\* reference plus one per search or query that captured it, so it reaches
\* zero only when the slot has moved on and every capturing call has
\* returned; and a call in flight waits for nothing but the store's mutex, which is
\* then held by another call that waits for nothing, and no lock is held
\* by a thread that has returned.
HotSwapSafe ==
    /\ \A p \in DOMAIN providers :
          use_count[p] = (IF embedding_provider_ = p THEN 1 ELSE 0)
                           + Cardinality({t \in Threads : frame[t].provider = p})
    /\ \A t \in Threads :
          InFlightSearch(t) =>
              /\ frame[t].provider # Null
              /\ use_count[frame[t].provider] > 0
    /\ \A t \in Threads :
          pc[t] = "ad_embed" =>
              /\ embedding_provider_ # Null
              /\ use_count[embedding_provider_] > 0
    /\ \A t \in Threads :
          LET Waits(u) == /\ pc[u] \in {"ad_store", "s_store", "q_store",
                                         "c_store", "g_store"}
                          /\ store_mutex_ # NoThread
          IN  /\ Waits(t) => store_mutex_ \in Threads \ {t} /\ ~Waits(store_mutex_)
              /\ mutex_ = t => pc[t] # "idle"
              /\ store_mutex_ = t => pc[t] # "idle"

\* a search that was overtaken by a swap has returned, and only then is
\* the provider it captured destroyed
HotSwapSafeWitness ==
    \E t \in Threads :
        /\ result[t].op = "search"
        /\ result[t].swapped
        /\ result[t].provider # embedding_provider_
        /\ use_count[result[t].provider] = 0

\* C7 as stated: no thread ever holds the backend lock and the store lock
\* together.
LocksNeverNested ==
    \A t \in Threads : ~(mutex_ = t /\ store_mutex_ = t)

\* C7 as the code has it: search and query have released the backend lock
\* before they embed, enter the store or generate; add_document, clear and
\* get_statistics enter the store holding the backend lock; the store lock
\* is only ever taken after the backend lock, by one of those three.
LockOrder ==
    /\ \A t \in Threads : InFlightSearch(t) => mutex_ # t /\ store_mutex_ # t
    /\ \A t \in Threads :
          pc[t] \in {"ad_embed", "ad_store", "ad_meta", "c_store", "c_clear",
                     "g_store", "g_stats"} => mutex_ = t
    /\ \A t \in Threads :
          store_mutex_ = t => mutex_ = t /\ pc[t] \in {"ad_meta", "c_clear", "g_stats"}
    /\ \A t \in Threads : pc[t] = "idle" => mutex_ # t /\ store_mutex_ # t

\* add_document holds both locks while a search, its backend lock
\* released, waits for the store
LockOrderWitness ==
    \E t, u \in Threads :
        /\ pc[t] = "ad_meta"
        /\ mutex_ = t
        /\ store_mutex_ = t
        /\ pc[u] = "s_store"

\* C8: in its embedding phase and in its store phase a search does not
\* hold the backend lock, so set_embedding_provider and set_text_generator
\* called by an idle thread can run to completion; the search goes on
\* with the provider it captured, which is alive and is the one it embeds
\* with.
SearchDoesNotBlockSwap ==
    \A t \in Threads :
        pc[t] \in {"s_embed", "s_store"} =>
            /\ mutex_ # t
            /\ frame[t].provider # Null
            /\ use_count[frame[t].provider] > 0
            /\ providers[frame[t].provider].ready
            /\ pc[t] = "s_embed" =>
                  UsedProvider(t) = frame[t].provider
            /\ pc[t] = "s_store" =>
                  /\ frame[t].embedder = frame[t].provider
                  /\ Len(frame[t].embedding) = providers[frame[t].provider].dimension
            /\ \A u \in Threads \ {t} :
                  (pc[u] = "idle" /\ ops < MaxOps) =>
                      /\ mutex_ = NoThread
                      /\ ENABLED SetEmbeddingProvider(u,
                            [null |-> FALSE, dimension |-> Dimension, ready |-> TRUE])
                      /\ ENABLED SetTextGenerator(u, "ready")

\* a provider swap completed while the search was in flight, and the
\* search returned results
SearchDoesNotBlockSwapWitness ==
    \E t, u \in Threads :
        /\ result[t].op = "search"
        /\ result[t].swapped
        /\ result[t].ret # <<>>
        /\ result[u].op = "set_embedding_provider"

\* C9: a search concurrent with add_document never sees a half-inserted
\* chunk: whenever the store is unlocked every key of the index has its
\* metadata entry and its id mapping, and every result a search or query
\* takes from the store carries the id, text and metadata of one chunk
\* that is in the index, in the metadata map and in the id map.
ChunkInsertionAtomic ==
    /\ [](store_mutex_ = NoThread =>
             /\ DOMAIN index_ \subseteq DOMAIN chunks_
             /\ \A k \in DOMAIN chunks_ :
                   /\ chunks_[k].id \in DOMAIN id_to_key_
                   /\ id_to_key_[chunks_[k].id] = k)
    /\ [][\A t \in Threads :
            LET got == IF pc[t] = "s_store" /\ pc'[t] = "idle" THEN result'[t].ret
                       ELSE IF pc[t] = "q_store" /\ pc'[t] = "q_generate"
                       THEN frame'[t].results
                       ELSE <<>>
            IN  \A i \in DOMAIN got :
                   \E k \in DOMAIN index_ \cap DOMAIN chunks_ :
                      /\ got[i].id = chunks_[k].id
                      /\ got[i].text = chunks_[k].text
                      /\ got[i].metadata = chunks_[k].metadata
                      /\ got[i].id \in DOMAIN id_to_key_
                      /\ id_to_key_[got[i].id] = k]_vars

\* add_document has inserted the first of two chunks and is embedding the
\* second; the only other call made, a search, has returned that chunk
ChunkInsertionAtomicWitness ==
    \E t, u \in Threads :
        /\ ops = 2
        /\ pc[t] = "ad_embed"
        /\ Len(frame[t].chunks) = 1
        /\ result[u].op = "search"
        /\ result[u].ret # <<>>
        /\ result[u].ret[1].id = ChunkId(0)

EmptyStoreNoContext ==
    /\ [](\A t \in Threads : pc[t] = "q_generate" => Size > 0)
    /\ [][\A t \in Threads :
            (pc[t] \in {"q_embed", "q_store"} /\ Size = 0) =>
                \/ pc[t] = "q_embed" /\ pc'[t] = "q_store"
                \/ /\ pc'[t] = "idle"
                   /\ result'[t].op = "query"
                   /\ result'[t].success
                   /\ DOMAIN result'[t].metadata = {"reason"}
                   /\ result'[t].metadata.reason = "no_context"
                   /\ result'[t].text =
                         "I don't have enough information to answer that question."
                   /\ result'[t].generates = 0]_vars

\* the first call made on a new backend is a query; its embedding has the
\* configured length, the store is searched, and the answer is no_context
EmptyStoreNoContextWitness ==
    \E t \in Threads :
        /\ ops = 1
        /\ result[t].op = "query"
        /\ result[t].success
        /\ result[t].metadata = [reason |-> "no_context"]
        /\ result[t].embeds = 1
        /\ ~result[t].threw
        /\ result[t].generates = 0
        /\ providers[result[t].provider].dimension = config_.embedding_dimension
        /\ Size = 0

\* C14: a query during which the embedding provider or the text generator
\* threw returns success = false with a text that begins with "Error: ".
ThrowIsFailure ==
    \A t \in Threads :
        (result[t].op = "query" /\ result[t].threw) =>
            /\ ~result[t].success
            /\ result[t].text = "Error: generate failed"

\* C15: a query moves idle -> embed -> store search -> generate -> idle and
\* may only leave early for idle; validation failure ends in an error
\* result, an empty search in the short-circuit answer, generate in an
\* error or in the assembled result; embed and generate are each called at
\* most once, generate only after validation passed and the search
\* returned something.
QueryStateMachine ==
    /\ [](\A t \in Threads :
            /\ frame[t].op = "query" =>
                  /\ frame[t].embeds <= 1
                  /\ frame[t].generates = 0
                  /\ pc[t] \in {"q_embed", "q_store", "q_generate"}
                  /\ frame[t].provider # Null
                  /\ providers[frame[t].provider].ready
                  /\ frame[t].generator = "ready"
            /\ pc[t] = "q_generate" =>
                  /\ frame[t].embeds = 1
                  /\ frame[t].results # <<>>
            /\ result[t].op = "query" =>
                  /\ result[t].embeds <= 1
                  /\ result[t].generates <= 1
                  /\ result[t].generates = 1 => result[t].embeds = 1
                  /\ \/ ~result[t].success
                     \/ /\ result[t].success
                        /\ result[t].metadata = [reason |-> "no_context"]
                        /\ result[t].generates = 0
                     \/ /\ result[t].success
                        /\ DOMAIN result[t].metadata =
                              {"num_chunks", "context_length", "sources"}
                        /\ result[t].generates = 1)
    /\ [][\A t \in Threads :
            LET Phases == {"q_embed", "q_store", "q_generate"}
                Error  == result'[t].op = "query" /\ ~result'[t].success
                Short  == /\ result'[t].op = "query"
                          /\ result'[t].success
                          /\ result'[t].metadata = [reason |-> "no_context"]
                Done   == /\ result'[t].op = "query"
                          /\ result'[t].success
                          /\ "sources" \in DOMAIN result'[t].metadata
            IN  /\ (QueryStart(t) /\ pc'[t] = "idle") => Error
                /\ (pc[t] \notin Phases /\ pc'[t] \in Phases) =>
                       pc[t] = "idle" /\ pc'[t] = "q_embed" /\ QueryStart(t)
                /\ (pc[t] = "q_embed" /\ pc'[t] # pc[t]) =>
                       pc'[t] = "q_store" \/ (pc'[t] = "idle" /\ Short)
                /\ (pc[t] = "q_store" /\ pc'[t] # pc[t]) =>
                       pc'[t] = "q_generate" \/ (pc'[t] = "idle" /\ Short)
                /\ (pc[t] = "q_generate" /\ pc'[t] # pc[t]) =>
                       pc'[t] = "idle" /\ (Error \/ Done)]_vars

\* a query went through every step and returned the assembled result
QueryStateMachineWitness ==
    \E t \in Threads :
        /\ result[t].op = "query"
        /\ result[t].success
        /\ result[t].embeds = 1
        /\ result[t].generates = 1
        /\ "sources" \in DOMAIN result[t].metadata

\* C16: the prompt is the template with the template's first {context}
\* replaced by the context and the template's first {query} replaced by the
\* question, whatever the context and the question contain.
PromptSubstitutesTemplatePlaceholders ==
    \A t \in Threads :
        result[t].op = "prompt" =>
            LET tm == result[t].prompt_template
                c  == Find(tm, ContextPlaceholder)
                q  == Find(tm, QueryPlaceholder)
                lc == Len(ContextPlaceholder)
                lq == Len(QueryPlaceholder)
            IN  (c # 0 /\ q # 0) =>
                    result[t].prompt =
                        IF c < q
                        THEN SubSeq(tm, 1, c - 1) \o result[t].context
                                \o SubSeq(tm, c + lc, q - 1) \o result[t].query
                                \o SubSeq(tm, q + lq, Len(tm))
                        ELSE SubSeq(tm, 1, q - 1) \o result[t].query
                                \o SubSeq(tm, q + lq, c - 1) \o result[t].context
                                \o SubSeq(tm, c + lc, Len(tm))

\* C17: when generate succeeds the result carries num_chunks equal to the
\* number of search results and one source per search result, in the same
\* order, with that result's id and score; when generate fails or throws
\* the result is a failure without sources.
SourcesMatchResults ==
    [][\A t \in Threads :
          (pc[t] = "q_generate" /\ pc'[t] = "idle") =>
              LET rs == frame[t].results
                  r  == result'[t]
              IN  IF \E o \in {"ok"} : QueryGenerate(t, o)
                  THEN /\ r.success
                       /\ r.metadata.num_chunks = Len(rs)
                       /\ Len(r.metadata.sources) = Len(rs)
                       /\ \A i \in 1..Len(rs) :
                             /\ r.metadata.sources[i].id = rs[i].id
                             /\ r.metadata.sources[i].score = rs[i].score
                  ELSE /\ ~r.success
                       /\ "sources" \notin DOMAIN r.metadata]_vars

\* a query that retrieved two chunks returned them as two sources
SourcesMatchResultsWitness ==
    \E t \in Threads :
        /\ result[t].op = "query"
        /\ result[t].success
        /\ "sources" \in DOMAIN result[t].metadata
        /\ result[t].metadata.num_chunks = 2
        /\ Len(result[t].metadata.sources) = 2
        /\ result[t].metadata.sources[1].id # result[t].metadata.sources[2].id

\* C18: load of a path whose files the last save() to it wrote completely
\* returns true and leaves the store as it was at that save, whatever was
\* done to the store in between: the same index, key -> chunk and id -> key
\* maps, size, search results and key counter; the counter is above every
\* key that was live or retired at the save, and a key handed out later is
\* never below the counter.
SaveLoadRoundTrip ==
    /\ [](\A p \in Paths :
            (persisted[p].valid /\ lastOp.op = "load" /\ lastOp.arg = p) =>
                LET s == persisted[p].store
                IN  /\ lastOp.ret
                    /\ Store = s
                    /\ Size = Cardinality(DOMAIN s.index)
                    /\ \A q \in QueryVectors, k \in TopKs, th \in Thresholds :
                          SearchResults(Store, q, k, th) = SearchResults(s, q, k, th)
                    /\ \A k \in persisted[p].keys : k < next_key_)
    /\ [][\A k \in DOMAIN chunks_' \ DOMAIN chunks_ :
            lastOp'.op = "load" \/ k >= next_key_]_vars

\* a store that had retired a key was saved and loaded again
SaveLoadRoundTripWitness ==
    /\ lastOp = [op |-> "load", arg |-> "p", ret |-> TRUE]
    /\ persisted["p"].valid
    /\ Store = persisted["p"].store
    /\ chunks_ # EmptyMap
    /\ \E k \in persisted["p"].keys : k \notin DOMAIN chunks_

\* C19: load returns true only if the index file and the sidecar are both
\* present and the sidecar lists exactly the keys of the index file, with
\* next_key above all of them.
LoadRequiresConsistentFiles ==
    \A p \in Paths :
        (lastOp.op = "load" /\ lastOp.arg = p /\ lastOp.ret) =>
            /\ indexFile[p].present
            /\ metaFile[p].present
            /\ LET entries == metaFile[p].data.chunks
                   listed  == {entries[i].key : i \in DOMAIN entries}
               IN  /\ listed = DOMAIN indexFile[p].data
                   /\ \A k \in listed : k < metaFile[p].data.next_key

\* C20: add_chunks_batch returns true exactly if it inserted a chunk.  An
\* item passes validation if its embedding has the configured length and
\* its id is neither live nor inserted earlier by the same batch; it is
\* inserted if it passes and the engine takes it.  Items that do not pass
\* change nothing (the key counter advances only by the items that passed),
\* entries present before the call are untouched, and every item that is
\* inserted ends up in the store under its id, wherever it stands in the
\* batch.
BatchPerItem ==
    [][\A items \in Batches :
          (/\ lastOp'.op = "add_chunks_batch"
           /\ Len(lastOp'.arg) = Len(items)
           /\ \A i \in 1..Len(items) : lastOp'.arg[i] = Brief(items[i].chunk)
           /\ StoreAddChunksBatch(items)) =>
              LET n == Len(items)
                  chunk(i) == items[i].chunk
                  passes[i \in 1..n] ==
                      /\ Len(chunk(i).embedding) = Dimension
                      /\ chunk(i).id \notin DOMAIN id_to_key_
                      /\ ~\E j \in 1..(i - 1) :
                            /\ passes[j]
                            /\ items[j].engineOk
                            /\ chunk(j).id = chunk(i).id
                  inserted == {i \in 1..n : passes[i] /\ items[i].engineOk}
                  passed   == {i \in 1..n : passes[i]}
              IN  /\ lastOp'.ret = (inserted # {})
                  /\ next_key_' = next_key_ + Cardinality(passed)
                  /\ passed = {} => UNCHANGED storeVars
                  /\ DOMAIN id_to_key_' =
                        DOMAIN id_to_key_ \cup {chunk(i).id : i \in inserted}
                  /\ Cardinality(DOMAIN chunks_') =
                        Cardinality(DOMAIN chunks_) + Cardinality(inserted)
                  /\ DOMAIN index_' = DOMAIN chunks_'
                  /\ \A k \in DOMAIN chunks_ :
                        /\ k \in DOMAIN chunks_'
                        /\ chunks_'[k] = chunks_[k]
                        /\ index_'[k] = index_[k]
                  /\ \A id \in DOMAIN id_to_key_ : id_to_key_'[id] = id_to_key_[id]
                  /\ \A i \in inserted :
                        LET k == id_to_key_'[chunk(i).id]
                        IN  /\ k >= next_key_
                            /\ chunks_'[k] = chunk(i)
                            /\ index_'[k] = chunk(i).embedding]_vars

\* a batch whose first item was refused for its dimension and whose second
\* item was inserted
BatchPerItemWitness ==
    /\ lastOp.op = "add_chunks_batch"
    /\ lastOp.ret
    /\ Len(lastOp.arg) = 2
    /\ lastOp.arg[1].len # Dimension
    /\ lastOp.arg[2].len = Dimension
    /\ lastOp.arg[1].id # lastOp.arg[2].id
    /\ lastOp.arg[2].id \in DOMAIN id_to_key_
    /\ lastOp.arg[1].id \notin DOMAIN id_to_key_

\* C21 as stated: remove_chunk of a live id returns true and removes the
\* chunk.
RemoveLiveReturnsTrue ==
    [][(lastOp'.op = "remove_chunk" /\ lastOp'.arg \in DOMAIN id_to_key_) =>
          (lastOp'.ret /\ lastOp'.arg \notin DOMAIN id_to_key_')]_vars

\* C21: remove_chunk of a live id that the engine carries out returns true
\* and takes the chunk's key out of the index and of the key -> chunk map and
\* its id out of the id -> key map, leaving every other entry; when the
\* engine refuses, or the id is not live, it returns false and changes
\* nothing.  The key counter is never changed, it stays above every retired
\* key, and a chunk accepted later never receives a key below the counter.
RemoveChunkEffect ==
    /\ [][lastOp'.op = "remove_chunk" =>
            LET id == lastOp'.arg
            IN  /\ next_key_' = next_key_
                /\ IF lastOp'.ret
                   THEN /\ id \in DOMAIN id_to_key_
                        /\ LET key == id_to_key_[id]
                           IN  /\ index_' = Erase(index_, key)
                               /\ key \notin DOMAIN index_'
                               /\ key \notin DOMAIN chunks_'
                               /\ DOMAIN chunks_' = DOMAIN chunks_ \ {key}
                               /\ DOMAIN id_to_key_' = DOMAIN id_to_key_ \ {id}
                               /\ \A k \in DOMAIN chunks_' : chunks_'[k] = chunks_[k]
                               /\ \A i \in DOMAIN id_to_key_' : id_to_key_'[i] = id_to_key_[i]
                   ELSE UNCHANGED storeVars
                /\ id \notin DOMAIN id_to_key_ => ~lastOp'.ret]_vars
    /\ [](\A k \in retired : k < next_key_)
    /\ [][\A k \in DOMAIN chunks_' \ DOMAIN chunks_ :
            k >= next_key_ /\ \A r \in retired : k > r]_vars

\* an id was removed and added again: it is live under a key above the
\* retired one
RemoveChunkEffectWitness ==
    /\ lastOp.op = "add_chunk"
    /\ lastOp.ret
    /\ \E r \in retired :
          /\ r \notin DOMAIN index_
          /\ id_to_key_[lastOp.arg.id] > r
          /\ Cardinality(DOMAIN chunks_) = 1

\* C22: when clear returns, the store is as a freshly constructed one (no
\* key in the index, both maps empty, size 0, key counter 0) and the
\* backend's chunk-id counter is 0; the first chunk stored after it gets key
\* 0 and id "chunk_0".
ClearResets ==
    /\ [][\A t \in Threads :
            (pc[t] = "c_clear" /\ pc'[t] = "idle") =>
                /\ index_' = EmptyMap
                /\ chunks_' = EmptyMap
                /\ id_to_key_' = EmptyMap
                /\ next_key_' = 0
                /\ Cardinality(DOMAIN index_') = 0
                /\ next_chunk_id_' = 0]_vars
    /\ [](\A t \in Threads :
            (result[t].op = "clear" /\ pc[t] = "idle") =>
                /\ Store = [index |-> <<>>, chunks |-> <<>>, ids |-> <<>>, next |-> 0]
                /\ next_chunk_id_ = 0)
    /\ [](\A t \in Threads :
            (result[t].op = "clear" /\ pc[t] = "ad_meta" /\ frame[t].added = 0) =>
                /\ frame[t].key = 0
                /\ frame[t].chunk.id = <<"chunk_", 0>>)

\* the first chunk after a clear is being stored, as the third call
ClearResetsWitness ==
    \E t \in Threads :
        /\ ops = 3
        /\ result[t].op = "clear"
        /\ pc[t] = "ad_meta"
        /\ frame[t].added = 0
        /\ frame[t].key = 0
        /\ frame[t].chunk.id = ChunkId(0)
        /\ index_[0] = frame[t].chunk.embedding

SearchRanked ==
    /\ [](\A q \in QueryVectors, k \in TopKs, th \in Thresholds :
            \A res \in SearchResults(Store, q, k, th) :
                /\ Len(res) <= k
                /\ \A i, j \in 1..Len(res) : i # j => res[i].id # res[j].id
                /\ \A i \in 1..Len(res) :
                      /\ res[i].id \in DOMAIN id_to_key_
                      /\ chunks_[id_to_key_[res[i].id]].text = res[i].text
                /\ \A i, j \in 1..Len(res) :
                      i < j => res[i].similarity >= res[j].similarity
                /\ res # <<>> =>
                      \E m \in IndexSearch(index_, q, k) :
                         \E pos \in [1..Len(res) -> 1..Len(m)] :
                            /\ \A i, j \in 1..Len(res) : i < j => pos[i] < pos[j]
                            /\ \A i \in 1..Len(res) :
                                  m[pos[i]] = id_to_key_[res[i].id])
    /\ [][lastOp'.op = "search" => UNCHANGED <<storeVars, fileVars, retired>>]_vars

\* a search for two results returned two chunks, the nearer one first
SearchRankedWitness ==
    /\ lastOp.op = "search"
    /\ Len(lastOp.ret) = 2
    /\ lastOp.ret[1].similarity > lastOp.ret[2].similarity
    /\ lastOp.ret[1].id # lastOp.ret[2].id
    /\ Cardinality(DOMAIN chunks_) = 2

\* C25: when the index holds a key that has no entry in the key -> chunk
\* map, a search still returns a result, no result stands for such a key,
\* every other match that reaches the threshold is in the result, and the
\* store is not modified.
SearchSkipsOrphans ==
    /\ [](DOMAIN index_ \ DOMAIN chunks_ # {} =>
            \A q \in QueryVectors, k \in TopKs, th \in Thresholds :
                /\ SearchResults(Store, q, k, th) # {}
                /\ Len(q) = Dimension =>
                      \A m \in IndexSearch(index_, q, k) :
                          LET res  == FilterMatches(Store, q, m, EffectiveThreshold(th))
                              Good == {i \in 1..Len(m) :
                                          /\ m[i] \in DOMAIN chunks_
                                          /\ Similarity(q, index_[m[i]]) >= Min(th, 15)}
                          IN  /\ res \in SearchResults(Store, q, k, th)
                              /\ Len(res) = Cardinality(Good)
                              /\ \A i \in Good : \E j \in 1..Len(res) :
                                    res[j].id = chunks_[m[i]].id
                              /\ \A j \in 1..Len(res) :
                                    id_to_key_[res[j].id] \in DOMAIN chunks_)
    /\ [][(lastOp'.op = "search" /\ DOMAIN index_ \ DOMAIN chunks_ # {}) =>
            UNCHANGED storeVars]_vars

\* the nearest vector of the index has no metadata entry, and the search
\* returned the chunk behind it
SearchSkipsOrphansWitness ==
    /\ lastOp.op = "search"
    /\ Len(lastOp.ret) = 1
    /\ lastOp.ret[1].similarity = 19
    /\ \E key \in DOMAIN index_ \ DOMAIN chunks_ : index_[key] = <<1, 0>>

\* C26: chunk_document returns for every text and every configuration.
ChunkDocumentTerminates ==
    \A t \in Threads : result[t].op = "chunk_document" => result[t].finished

\* the results of chunk_document calls that returned
Returned == {result[t] : t \in {u \in Threads : /\ result[u].op = "chunk_document"
                                                /\ result[u].finished}}

\* C27: the chunks of a non-empty text cover it: the first starts at 0, the
\* last ends at the text length, every chunk has start < end <= length, and
\* each chunk starts at or before the end of the one before it.
ChunksCoverText ==
    \A r \in Returned :
        r.text # <<>> =>
            LET c == r.chunks
                n == Len(c)
            IN  /\ n > 0
                /\ c[1].start_position = 0
                /\ c[n].end_position = Len(r.text)
                /\ \A i \in 1..n : /\ c[i].start_position < c[i].end_position
                                   /\ c[i].end_position <= Len(r.text)
                /\ \A i \in 1..(n - 1) : c[i + 1].start_position <= c[i].end_position

\* a text was split into three chunks that overlap
ChunksCoverTextWitness ==
    \E r \in Returned :
        /\ Len(r.chunks) >= 3
        /\ r.chunks[2].start_position < r.chunks[1].end_position
        /\ r.chunks[3].end_position = Len(r.text)

\* C28: the chunks carry chunk_index 0, 1, ..., n-1 in emission order, for
\* every text and every configuration (the chunks emitted so far, when the
\* call has not returned).
ChunkIndexSequential ==
    \A t \in Threads :
        result[t].op = "chunk_document" =>
            \A i \in 1..Len(result[t].chunks) : result[t].chunks[i].chunk_index = i - 1

\* a call returned three chunks or more, numbered from 0
ChunkIndexSequentialWitness ==
    \E r \in Returned :
        /\ Len(r.chunks) >= 3
        /\ r.chunks[1].chunk_index = 0
        /\ r.chunks[Len(r.chunks)].chunk_index = Len(r.chunks) - 1

\* C29: no returned chunk has a text that is empty or that begins or ends
\* with whitespace.
ChunksTrimmed ==
    \A r \in Returned :
        \A i \in 1..Len(r.chunks) :
            LET text == r.chunks[i].text
            IN  /\ text # <<>>
                /\ text[1] \notin TrimSet
                /\ text[Len(text)] \notin TrimSet

\* C30 as stated: when more than one chunk is returned with chunk_overlap > 0,
\* every chunk starts strictly before the end of the chunk before it.
ConsecutiveChunksOverlap ==
    \A r \in Returned :
        (Len(r.chunks) > 1 /\ r.config.chunk_overlap > 0) =>
            \A k \in 1..(Len(r.chunks) - 1) :
                r.chunks[k + 1].start_position < r.chunks[k].end_position

\* C30: chunk k+1 starts chunk_overlap * chars_per_token characters before
\* the end of chunk k when chunk k ends beyond that many characters, and at
\* the end of chunk k otherwise; with 0 < chunk_overlap < chunk_size the
\* consecutive chunks always overlap.
ChunkStartFollowsOverlap ==
    \A t \in Threads :
        result[t].op = "chunk_document" =>
            LET c == result[t].chunks
                cfg == result[t].config
                overlap_chars == cfg.chunk_overlap * cfg.chars_per_token
            IN  \A k \in 1..(Len(c) - 1) :
                    /\ c[k + 1].start_position =
                          IF c[k].end_position > overlap_chars
                          THEN c[k].end_position - overlap_chars
                          ELSE c[k].end_position
                    /\ (0 < cfg.chunk_overlap /\ cfg.chunk_overlap < cfg.chunk_size)
                          => c[k + 1].start_position < c[k].end_position

\* two chunks were returned with chunk_overlap > 0, the second starting where
\* the first ends
ChunkStartFollowsOverlapWitness ==
    \E r \in Returned :
        /\ Len(r.chunks) > 1
        /\ r.config.chunk_overlap > 0
        /\ r.chunks[2].start_position = r.chunks[1].end_position

\* C31: chunk_document returns no chunk for the empty text and at least one
\* chunk for every non-empty text.
EmptyTextNoChunks ==
    \A r \in Returned : (r.text = <<>>) <=> (r.chunks = <<>>)

\* the empty text was chunked
EmptyTextNoChunksWitness ==
    \E r \in Returned : r.text = <<>> /\ r.chunks = <<>>

\* C32: rac_rag_add_documents_batch returns RAC_SUCCESS only when no document
\* of the batch failed to be added.
BatchReportsFailure ==
    \A t \in Threads :
        (result[t].op = "rac_rag_add_documents_batch" /\ result[t].ret = RAC_SUCCESS)
            => \A i \in 1..Len(result[t].codes) : result[t].codes[i] = RAC_SUCCESS

\* the target chunk length in characters
TargetLength(cfg) == cfg.chunk_size * cfg.chars_per_token

Stripped(text) ==
    IF \A i \in 1..Len(text) : text[i] \in TrimSet THEN <<>> ELSE Trim(text)

\* C34: the text of every returned chunk is the slice
\* [start_position, end_position) of the source with leading and trailing
\* whitespace removed, merged chunks included.
ChunkTextIsTrimmedSlice ==
    \A r \in Returned :
        \A i \in 1..Len(r.chunks) :
            r.chunks[i].text =
                Stripped(SubSeq(r.text, r.chunks[i].start_position + 1,
                                r.chunks[i].end_position))

\* C35: under every interleaving of add_document and clear calls, the id
\* handed to the store is "chunk_N" for the N the counter had, N grows by one
\* with every id and returns to 0 only when clear has emptied the store; the
\* ids in the store are below the counter, so a chunk handed over by
\* add_document never has an id the store already holds.
ChunkIdsFresh ==
    /\ [](/\ \A id \in DOMAIN id_to_key_ :
                \E n \in 0..(next_chunk_id_ - 1) : id = ChunkId(n)
          /\ \A t \in Threads :
                pc[t] = "ad_store" =>
                    /\ frame[t].chunk.id = ChunkId(next_chunk_id_ - 1)
                    /\ frame[t].chunk.id \notin DOMAIN id_to_key_)
    /\ [][next_chunk_id_' # next_chunk_id_ =>
             \/ /\ next_chunk_id_' = next_chunk_id_ + 1
                /\ \E t \in Threads : /\ pc'[t] = "ad_store"
                                      /\ frame'[t].chunk.id = ChunkId(next_chunk_id_)
             \/ /\ next_chunk_id_' = 0
                /\ id_to_key_' = EmptyMap
                /\ \E t \in Threads : pc[t] = "c_clear"]_vars

\* one thread added a document, the other cleared the backend, and the first
\* is adding again: "chunk_0" is in use for the second time
ChunkIdsFreshWitness ==
    \E t \in Threads, u \in Threads :
        /\ t # u
        /\ result[t].op = "add_document" /\ result[t].added > 0
        /\ result[u].op = "clear"
        /\ pc[t] = "ad_meta"
        /\ frame[t].chunk.id = ChunkId(0)

\* C36: an add_document call that returned false added no chunk to the
\* store.
FailedAddLeavesNothing ==
    \A t \in Threads :
        (result[t].op = "add_document" /\ ~result[t].ret) => result[t].added = 0

\* C37: a load that returns false leaves the index, both maps and the key
\* counter as they were.
FailedLoadChangesNothing ==
    [][(lastOp'.op = "load" /\ ~lastOp'.ret /\ \E p \in Paths : StoreLoad(p))
          => UNCHANGED storeVars]_vars

\* C38: a search or query takes the Embedder handle and the
\* embedding_dimension from one and the same state of the backend and keeps
\* both until it returns; the query vector of the captured provider is
\* checked against the captured dimension, whatever set_embedding_provider
\* did in between; and the captured dimension is the one recorded when the
\* captured provider was installed.
SnapshotConsistent ==
    /\ [](\A t \in Threads :
             InFlightSearch(t) =>
                 frame[t].dimension =
                     IF frame[t].provider = 1 THEN BackendConfig.embedding_dimension
                     ELSE providers[frame[t].provider].dimension)
    /\ [][\A t \in Threads :
             /\ (pc[t] = "idle" /\ pc'[t] \in {"s_embed", "q_embed"})
                   => /\ frame'[t].provider = embedding_provider_
                      /\ frame'[t].dimension = config_.embedding_dimension
             /\ (InFlightSearch(t) /\ pc'[t] # "idle")
                   => /\ frame'[t].provider = frame[t].provider
                      /\ frame'[t].dimension = frame[t].dimension
             /\ (pc[t] \in {"s_embed", "q_embed"}
                   /\ (SearchEmbed(t, FALSE) \/ QueryEmbed(t, FALSE)))
                   => (pc'[t] \in {"s_store", "q_store"}
                          <=> providers[frame[t].provider].dimension = frame[t].dimension)]_vars

\* a search passed its dimension check with the provider and the dimension
\* it captured, after a swap installed a provider of another dimension
SnapshotConsistentWitness ==
    \E t \in Threads :
        /\ pc[t] = "s_store"
        /\ frame[t].swapped
        /\ frame[t].provider # embedding_provider_
        /\ config_.embedding_dimension # frame[t].dimension
        /\ Len(frame[t].embedding) = frame[t].dimension

\* C39: every call that has started eventually completes, under every
\* interleaving of the public operations: a thread between two calls holds
\* no lock, so the store lock is only ever awaited by a thread that holds
\* at most the backend lock and held by one that awaits nothing, and both
\* locks are free again and again.
EveryCallCompletes ==
    /\ \A t \in Threads : (pc[t] # "idle") ~> (pc[t] = "idle")
    /\ []<>(mutex_ = NoThread /\ store_mutex_ = NoThread)
    /\ [](\A t \in Threads : pc[t] = "idle" => (mutex_ # t /\ store_mutex_ # t))

\* one thread is inside add_document with both locks while the other,
\* inside search, waits for the store lock
EveryCallCompletesWitness ==
    \E t \in Threads, u \in Threads :
        /\ mutex_ = t /\ store_mutex_ = t /\ pc[t] = "ad_meta"
        /\ pc[u] = "s_store"

====
